---- MODULE Spec2Model ----
(***************************************************************************)
(* Typing-practice content script: selection mode, the overlay session     *)
(* (TypingSession + TypingInterface + InputProcessor + MetricsCalculator), *)
(* the in-place engine (InlineTyping) and the host page they act on.       *)
(*                                                                         *)
(* Every handler runs to completion on the page's event loop: the awaits   *)
(* in the handlers wait on promises that are already resolved, so only     *)
(* microtasks of the same handler run before the next event is taken.      *)
(* A handler is therefore one atomic step.  Handlers are written as        *)
(* functions from a state record to a state record so that a handler that  *)
(* calls another one is their composition.                                 *)
(***************************************************************************)
EXTENDS Integers, Sequences, FiniteSets, TLC

\* ------------------------------------------------------------------ bounds
MaxMutations == 1
MaxSummaries == 1
MaxTimers == 1
MaxErrors == 1
MaxSkips == 3
MaxStaleHandlers == 1
MaxTextLen == 4
MaxKeystrokes == 3
MaxSkipRecords == 2
MaxAncestors == 2
MaxBoundaryText == 5

\* ------------------------------------------------------ program constants
MinSelectionLength == 3
MinParagraphLength == 20
MaxSelectionLength == 10000
CharsPerWord == 5
MsPerMinute == 60000

\* --------------------------------------------------------------- the page
\* D is a block element that holds some text of its own and the paragraph P;
\* both carry enough text to be offered in selection mode.  H is a heading
\* whose text is too short for that.
Hosts == {"D", "P", "H"}
NoHost == "none"
Parent(h) == IF h = "P" THEN "D" ELSE "body"
Children(h) == {c \in Hosts : Parent(c) = h}

\* Length of the text of a paragraph typed in place: the shortest text that
\* isParagraphSuitable accepts.
ParagraphLen == MinParagraphLength

\* ---------------------------------------------------------- characters
NBSP == "nbsp"
\* U+212A, the Kelvin sign: not an ASCII letter, and "k" in lower case.
KelvinSign == "kelvin sign"
Letters == {"a", "b", "c", "k", "t", "x", "A", "B", "C", "K"}
Whitespace == {" ", NBSP, "\n", "\r", "\t"}
Chars == Letters \cup Whitespace \cup {".", KelvinSign}
\* event.key of the keys that produce no character.
KeyNames == {"Enter", "Tab", "Backspace", "Delete", "Escape", "Shift+Tab"}

\* String.prototype.toLowerCase
Lower(c) ==
  CASE c = "A" -> "a"
    [] c = "B" -> "b"
    [] c = "C" -> "c"
    [] c = "K" -> "k"
    [] c = KelvinSign -> "k"
    [] c = "Enter" -> "enter"
    [] c = "Tab" -> "tab"
    [] c = "Backspace" -> "backspace"
    [] c = "Delete" -> "delete"
    [] c = "Escape" -> "escape"
    [] c = "Shift+Tab" -> "shift+tab"
    [] OTHER -> c

\* /[a-zA-Z]/.test(c): c holds an ASCII letter.
IsAsciiLetter(c) == c \in Letters \cup KeyNames

\* 0-based character access, "" standing for JavaScript's undefined.
At(text, i) == IF i >= 0 /\ i < Len(text) THEN text[i + 1] ELSE ""

\* ------------------------------------------------ InputProcessor: matching
areCharactersEquivalent(input, expected) ==
  \/ input \in {" ", NBSP} /\ expected \in {" ", NBSP}
  \/ input \in {"\n", "\r"} /\ expected \in {"\n", "\r"}
  \/ input = "\t" /\ expected = "\t"
  \/ Lower(input) = Lower(expected) /\ IsAsciiLetter(input)

validateCharacter(input, expected) ==
  IF input = "" \/ expected = "" THEN FALSE
  ELSE IF input = expected THEN TRUE
  ELSE areCharactersEquivalent(input, expected)

\* ------------------------------------- InputProcessor: paragraph boundary
\* text.indexOf('\n\n', from): the first index at or after from, or -1.
RECURSIVE IndexOfDoubleNewline(_, _)
IndexOfDoubleNewline(text, from) ==
  IF from + 1 >= Len(text) THEN -1
  ELSE IF At(text, from) = "\n" /\ At(text, from + 1) = "\n" THEN from
  ELSE IndexOfDoubleNewline(text, from + 1)

\* text.indexOf('\n', from)
RECURSIVE IndexOfNewline(_, _)
IndexOfNewline(text, from) ==
  IF from >= Len(text) THEN -1
  ELSE IF At(text, from) = "\n" THEN from
  ELSE IndexOfNewline(text, from + 1)

\* Variant: the first single newline that has a character after it counts,
\* whitespace or not.
NewlineLoop_AnyNext(text, pos) ==
  IF pos # -1 /\ pos < Len(text) - 1 THEN pos + 1 ELSE -1

\* The while loop over single newlines, entered with pos = indexOf('\n').
RECURSIVE NewlineLoop(_, _)
NewlineLoop(text, pos) ==
  IF pos # -1 /\ pos < Len(text) - 1
  THEN IF At(text, pos + 1) # "" /\ At(text, pos + 1) \notin Whitespace
       THEN pos + 1
       ELSE NewlineLoop(text, IndexOfNewline(text, pos + 1))
  ELSE -1

\* /[.!?]\s+[A-Z]/ matched at index i: punctuation, one or more whitespace
\* characters, an upper-case letter.
RECURSIVE SpacesThenUpper(_, _)
SpacesThenUpper(text, j) ==
  IF At(text, j) \in Whitespace THEN SpacesThenUpper(text, j + 1)
  ELSE At(text, j) \in {"A", "B", "C"}

SentenceMatchAt(text, i) ==
  /\ At(text, i) \in {".", "!", "?"}
  /\ At(text, i + 1) \in Whitespace
  /\ SpacesThenUpper(text, i + 2)

\* sentenceRegex.exec(text) with lastIndex = from: index of the first match.
RECURSIVE SentenceExec(_, _)
SentenceExec(text, from) ==
  IF from >= Len(text) THEN -1
  ELSE IF SentenceMatchAt(text, from) THEN from
  ELSE SentenceExec(text, from + 1)

\* Variant: the position of a paragraph break itself is returned, not the
\* position after it.
findNextParagraphBoundary_AtBreak(text, startPos) ==
  LET dbl == IndexOfDoubleNewline(text, startPos)
      nl == NewlineLoop(text, IndexOfNewline(text, startPos))
      m == SentenceExec(text, startPos)
  IN  IF dbl # -1 THEN dbl
      ELSE IF nl # -1 THEN nl
      ELSE IF m # -1 THEN m + 2
      ELSE -1

findNextParagraphBoundary(text, startPos) ==
  LET dbl == IndexOfDoubleNewline(text, startPos)
      nl == NewlineLoop(text, IndexOfNewline(text, startPos))
      m == SentenceExec(text, startPos)
  IN  IF dbl # -1 THEN dbl + 2
      ELSE IF nl # -1 THEN nl
      ELSE IF m # -1 THEN m + 2
      ELSE -1

\* ------------------------------------------------- TypingSession: hashing
\* charCodeAt for the characters of the model.
CharCode(c) ==
  CASE c = "a" -> 97 [] c = "b" -> 98 [] c = "c" -> 99 [] c = "t" -> 116
    [] c = "x" -> 120 [] c = "A" -> 65 [] c = "B" -> 66 [] c = "C" -> 67
    [] c = " " -> 32 [] c = NBSP -> 160 [] c = "\n" -> 10 [] c = "\r" -> 13
    [] c = "\t" -> 9 [] c = "." -> 46 [] OTHER -> 63

\* hash = ((hash << 5) - hash) + char; hash = hash & hash: 31 * hash + char
\* modulo 2^32.  The 32-bit value is kept as two 16-bit halves <<hi, lo>>.
HashStep(hash, code) ==
  LET lo == 31 * hash[2] + code
      hi == 31 * hash[1] + (lo \div 65536)
  IN  <<hi % 65536, lo % 65536>>

RECURSIVE HashFrom(_, _, _)
HashFrom(str, i, hash) ==
  IF i > Len(str) THEN hash
  ELSE HashFrom(str, i + 1, HashStep(hash, CharCode(str[i])))

simpleHash(str) == HashFrom(str, 1, <<0, 0>>)

\* ------------------------------------------------------------------ state
VARIABLES
  dom,                    \* host elements of the page
  overlayInDom,           \* #typing-practice-overlay is in the document
  hintsInDom,             \* .typing-hints-panel is in the document
  isSelectionModeActive,  \* content script global
  currentTypingSession,   \* content script global: references the object?
  typingPracticeActiveSession, \* window registry: "null", "this", "other"
  session,                \* the TypingSession object and the objects it owns
  inlineTyping,           \* window.inlineTyping
  completionTimers,       \* pending setTimeout(cleanupCurrentSession, 2000)
  inlineTimers,           \* pending setTimeout(() => this.cleanup(), 1000)
  summaryLog,             \* end reasons of the summaries shown, in order
  warnings,               \* content-change warnings shown so far
  shownMessage,           \* temporary message the last handler showed
  calculator,             \* a MetricsCalculator driven on its own
  clock,                  \* what new Date() reads, in milliseconds
  call,                   \* a function of the engine called on its own:
                          \* <<name, argument>>, or <<>>
  returned                \* <<value>> once the call has returned

vars == <<dom, overlayInDom, hintsInDom, isSelectionModeActive,
          currentTypingSession, typingPracticeActiveSession, session,
          inlineTyping, completionTimers, inlineTimers, summaryLog,
          warnings, shownMessage, calculator, clock, call, returned>>

\* showTemporaryMessage(message, type): the type, or "none".
NoMessage == "none"

\* The state as one record, for the handlers.
Cur ==
  [dom |-> dom, overlayInDom |-> overlayInDom, hintsInDom |-> hintsInDom,
   selMode |-> isSelectionModeActive, cur |-> currentTypingSession,
   reg |-> typingPracticeActiveSession, s |-> session, inl |-> inlineTyping,
   timers |-> completionTimers, inlTimers |-> inlineTimers,
   summaryLog |-> summaryLog, warnings |-> warnings, prevented |-> FALSE,
   newSession |-> FALSE, message |-> NoMessage]

Becomes(n) ==
  /\ dom' = n.dom
  /\ overlayInDom' = n.overlayInDom
  /\ hintsInDom' = n.hintsInDom
  /\ isSelectionModeActive' = n.selMode
  /\ currentTypingSession' = n.cur
  /\ typingPracticeActiveSession' = n.reg
  /\ session' = n.s
  /\ inlineTyping' = n.inl
  /\ completionTimers' = n.timers
  /\ inlineTimers' = n.inlTimers
  /\ summaryLog' = n.summaryLog
  /\ warnings' = n.warnings
  /\ shownMessage' = n.message
  /\ UNCHANGED <<calculator, clock, call, returned>>

\* ---------------------------------------------------------------- the DOM
\* kids: "orig" the page's own child nodes, "spans" one span.typing-char per
\* character, "text" a single text node written by InlineTyping.cleanup.
\* own is the version of the element's own text (0 as loaded, 1 after the
\* page changed it, 2 after the page wrote the same text again); written is
\* the text the engine put into the element.
HostInit ==
  [attached |-> TRUE, highlighted |-> FALSE, editable |-> FALSE,
   kids |-> "orig", own |-> 0, written |-> <<>>]

\* The text the page loads into each element, and the text after a script of
\* the page has rewritten it.
LoadedText(h) ==
  IF h = "D" THEN <<"a", "\n", "\n", "b">>
  ELSE IF h = "H" THEN <<"c", "a", "t">>
  ELSE [i \in 1..ParagraphLen |->
          IF i % 4 = 1 THEN "c" ELSE IF i % 4 = 2 THEN "a"
          ELSE IF i % 4 = 3 \/ i = ParagraphLen THEN "t" ELSE " "]

OwnText(h, version) ==
  IF version = 1 THEN <<"x">> \o Tail(LoadedText(h)) ELSE LoadedText(h)

RECURSIVE textContent(_, _)
textContent(d, h) ==
  IF d[h].kids # "orig" THEN d[h].written
  ELSE LET c == {x \in Children(h) : d[x].attached}
       IN  OwnText(h, d[h].own)
           \o (IF c = {} THEN <<>> ELSE textContent(d, CHOOSE x \in c : TRUE))

\* The text h has by the page's own doing: its own text, then its children's.
RECURSIVE PageText(_, _)
PageText(d, h) ==
  OwnText(h, d[h].own)
  \o (IF Children(h) = {} THEN <<>>
      ELSE PageText(d, CHOOSE x \in Children(h) : TRUE))

RECURSIVE InDocument(_, _)
InDocument(d, h) ==
  IF ~d[h].attached THEN FALSE
  ELSE IF Parent(h) = "body" THEN TRUE
  ELSE InDocument(d, Parent(h))

\* What the page shows of h: nothing once h is out of the document.
renderedText(d, h) == IF InDocument(d, h) THEN textContent(d, h) ELSE <<>>

RECURSIVE isWithinEditableElement(_, _)
isWithinEditableElement(d, h) ==
  IF h = "body" THEN FALSE
  ELSE IF d[h].editable THEN TRUE
  ELSE isWithinEditableElement(d, Parent(h))

\* text.trim().length
TrimmedLength(text) ==
  Cardinality({i \in 1..Len(text) :
      /\ \E j \in 1..i : text[j] \notin Whitespace
      /\ \E k \in i..Len(text) : text[k] \notin Whitespace})

isParagraphSuitable(d, h) ==
  /\ InDocument(d, h)
  /\ TrimmedLength(textContent(d, h)) >= MinParagraphLength
  /\ ~isWithinEditableElement(d, h)

\* The nearest element, from target upwards, carrying the highlight class.
RECURSIVE findParagraphElement(_, _)
findParagraphElement(d, target) ==
  IF target = "body" THEN NoHost
  ELSE IF d[target].highlighted THEN target
  ELSE findParagraphElement(d, Parent(target))

\* --------------------------------- TextSelectionHandler, any selection
\* A text is given by its runs, <<character, length>>, so that texts of ten
\* thousand characters can be written down.
RECURSIVE RunsLength(_)
RunsLength(runs) ==
  IF runs = <<>> THEN 0 ELSE Head(runs)[2] + RunsLength(Tail(runs))

RECURSIVE TrimStart(_)
TrimStart(runs) ==
  IF runs = <<>> THEN runs
  ELSE IF Head(runs)[1] \in Whitespace THEN TrimStart(Tail(runs))
  ELSE runs

RECURSIVE TrimEnd(_)
TrimEnd(runs) ==
  IF runs = <<>> THEN runs
  ELSE IF runs[Len(runs)][1] \in Whitespace
       THEN TrimEnd(SubSeq(runs, 1, Len(runs) - 1))
  ELSE runs

\* String.prototype.trim
Trim(runs) == TrimEnd(TrimStart(runs))

\* /\S/.test(text)
HasNonWhitespace(runs) ==
  \E i \in DOMAIN runs : runs[i][1] \notin Whitespace /\ runs[i][2] > 0

editableTags == {"input", "textarea", "select"}
editableTypes == {"text", "password", "email", "search", "url"}

\* isWithinEditableElement(element): path holds the element and its
\* ancestors below document.body, the element first; the loop ends at
\* document.body without looking at it.
RECURSIVE TextSelectionHandler_isWithinEditableElement(_, _)
TextSelectionHandler_isWithinEditableElement(path, i) ==
  IF i > Len(path) THEN FALSE
  ELSE IF path[i].tagName \in editableTags
       THEN IF path[i].tagName = "input"
            THEN (IF path[i].type = "" THEN "text" ELSE path[i].type)
                   \in editableTypes
            ELSE TRUE
  ELSE IF path[i].contentEditable = "true" THEN TRUE
  ELSE TextSelectionHandler_isWithinEditableElement(path, i + 1)

\* validateSelection(selection).  container is "text" for a text node whose
\* parent element is the first of path (document.body when path is empty),
\* "element" for that element itself, "orphan" for a text node without a
\* parent element, "none" when the range has no container; throws says that
\* reading the selection raises an exception.
TextSelectionHandler_validateSelection(selection) ==
  IF selection.isNull \/ selection.rangeCount = 0 THEN FALSE
  ELSE IF selection.throws THEN FALSE
  ELSE IF RunsLength(Trim(selection.text)) < MinSelectionLength THEN FALSE
  ELSE IF ~HasNonWhitespace(Trim(selection.text)) THEN FALSE
  ELSE IF RunsLength(Trim(selection.text)) > MaxSelectionLength THEN FALSE
  ELSE IF selection.container \in {"none", "orphan"} THEN FALSE
  ELSE ~TextSelectionHandler_isWithinEditableElement(selection.path, 1)

\* ----------------------------------------------------------- the objects
NoTypingInterface ==
  [isInitialized |-> FALSE, overlayElement |-> FALSE, session |-> FALSE,
   text |-> <<>>, currentPosition |-> 0, errorMarks |-> {},
   errors |-> <<>>, skippedCharacters |-> <<>>]

NoInputProcessor ==
  [typingInterface |-> FALSE, currentPosition |-> 0, isProcessing |-> FALSE,
   eventListeners |-> FALSE]

NoMetricsCalculator ==
  [session |-> FALSE, isSessionActive |-> FALSE, endTime |-> FALSE,
   correctCharacters |-> 0, incorrectCharacters |-> 0,
   skippedCharacters |-> 0]

NoHash == <<-1, -1>>

\* new TypingSession(): each field set by the constructor.  typingInterface,
\* inputProcessor, metricsCalculator and hintsUI say whether the field
\* references an object; ti, ip and mc are those objects.
NewTypingSession ==
  [isActive |-> FALSE, sessionLock |-> FALSE, endTime |-> FALSE,
   parentElement |-> NoHost, text |-> <<>>, originalState |-> FALSE,
   originalContentHash |-> NoHash, contentObserver |-> FALSE,
   cleanupCallbacks |-> FALSE,
   typingInterface |-> FALSE, ti |-> NoTypingInterface,
   inputProcessor |-> FALSE, ip |-> NoInputProcessor,
   metricsCalculator |-> FALSE, mc |-> NoMetricsCalculator,
   hintsUI |-> FALSE, currentPosition |-> 0]

\* keyHandlerRegistered: the handler held in this.keyHandler is registered
\* on the document; staleHandlers: handlers of earlier startTyping calls that
\* are still registered (this.keyHandler no longer refers to them).
NewInlineTyping ==
  [originalElement |-> NoHost, originalText |-> <<>>, currentPosition |-> 0,
   isActive |-> FALSE, keyHandlerRegistered |-> FALSE, staleHandlers |-> 0]

\* ------------------------------------------------------- TypingInterface
TypingInterface_isActive(S) ==
  S.s.ti.isInitialized /\ S.s.ti.overlayElement

TypingInterface_cleanup(S) ==
  [S EXCEPT !.overlayInDom = IF S.s.ti.overlayElement THEN FALSE ELSE @,
            !.s.ti = NoTypingInterface]

TypingInterface_updateCursor(S, position) ==
  IF ~S.s.ti.overlayElement THEN S
  ELSE [S EXCEPT !.s.ti.currentPosition = position]

TypingInterface_highlightProgress(S, completedChars) ==
  IF ~S.s.ti.overlayElement THEN S
  ELSE TypingInterface_updateCursor(
         [S EXCEPT !.s.ti.errorMarks = {}], completedChars)

TypingInterface_showError(S, position) ==
  IF ~S.s.ti.overlayElement THEN S
  ELSE IF position >= Len(S.s.ti.text) THEN S
  ELSE [S EXCEPT !.s.ti.errorMarks = @ \cup {position},
                 !.s.ti.errors = IF S.s.ti.session THEN Append(@, position)
                                 ELSE @]

TypingInterface_clearError(S, position) ==
  IF ~S.s.ti.overlayElement THEN S
  ELSE [S EXCEPT !.s.ti.errorMarks = @ \ {position}]

\* renderTypingOverlay: a fresh overlay with fresh character spans is put
\* into the document and the cursor is set to 0.
TypingInterface_renderTypingOverlay(S) ==
  TypingInterface_updateCursor(
    [S EXCEPT !.s.ti.overlayElement = TRUE, !.s.ti.errorMarks = {},
              !.overlayInDom = TRUE], 0)

TypingInterface_initialize(S, text) ==
  LET S1 == IF S.s.ti.isInitialized THEN TypingInterface_cleanup(S) ELSE S
      S2 == [S1 EXCEPT !.s.ti.session = TRUE, !.s.ti.text = text,
                       !.s.ti.errors = <<>>,
                       !.s.ti.skippedCharacters = <<>>,
                       !.s.ti.currentPosition = 0,
                       !.s.ti.isInitialized = TRUE]
  IN  TypingInterface_renderTypingOverlay(S2)

\* ------------------------------------------------------ MetricsCalculator
MetricsCalculator_startSession(S) ==
  [S EXCEPT !.s.mc = [session |-> TRUE, isSessionActive |-> TRUE,
                      endTime |-> FALSE, correctCharacters |-> 0,
                      incorrectCharacters |-> 0, skippedCharacters |-> 0]]

MetricsCalculator_endSession(S) ==
  IF ~S.s.mc.isSessionActive \/ ~S.s.mc.session THEN S
  ELSE [S EXCEPT !.s.mc.endTime = TRUE, !.s.mc.isSessionActive = FALSE]

\* Accuracy in hundredths of a percent: Math.round(accuracy * 100) / 100.
calculateFinalAccuracy(mc) ==
  LET typed == mc.correctCharacters + mc.incorrectCharacters
  IN  IF ~mc.session THEN 10000
      ELSE IF typed = 0 THEN 10000
      ELSE (2 * mc.correctCharacters * 10000 + typed) \div (2 * typed)

\* ------------------------------------- MetricsCalculator, with its clock
\* The calculator as an object of its own: session says whether this.session
\* is set, the other fields are those of this.session.  Times are in
\* milliseconds, NoTime stands for null; accuracies are in hundredths of a
\* percent.
NoTime == -1

NewMetricsCalculator ==
  [session |-> FALSE, isSessionActive |-> FALSE, startTime |-> NoTime,
   endTime |-> NoTime, totalCharacters |-> 0, correctCharacters |-> 0,
   incorrectCharacters |-> 0, skippedCharacters |-> 0, totalKeystrokes |-> 0,
   correctKeystrokes |-> 0, incorrectKeystrokes |-> 0,
   skips |-> <<>>, errors |-> <<>>, currentWPM |-> 0,
   currentAccuracy |-> 10000, keystrokeHistory |-> <<>>]

startSession(mc, now) ==
  [NewMetricsCalculator EXCEPT !.session = TRUE, !.isSessionActive = TRUE,
                               !.startTime = now]

\* Math.round(wordsTyped / timeElapsedMinutes) for a positive time.
WordsPerMinute(characters, ms) ==
  (2 * characters * MsPerMinute + CharsPerWord * ms)
    \div (2 * CharsPerWord * ms)

\* Variant: every typed character counts towards the words typed.
calculateWPM_AllTyped(mc, now) ==
  IF ~mc.isSessionActive \/ ~mc.session THEN 0
  ELSE IF now - mc.startTime <= 0 THEN 0
  ELSE WordsPerMinute(mc.correctCharacters + mc.incorrectCharacters,
                      now - mc.startTime)

calculateWPM(mc, now) ==
  IF ~mc.isSessionActive \/ ~mc.session THEN 0
  ELSE IF now - mc.startTime <= 0 THEN 0
  ELSE WordsPerMinute(mc.correctCharacters, now - mc.startTime)

\* Variant: the accuracy is cut after two decimals, not rounded.
calculateAccuracy_Truncating(mc) ==
  IF ~mc.isSessionActive \/ ~mc.session THEN 10000
  ELSE IF mc.correctCharacters + mc.incorrectCharacters = 0 THEN 10000
  ELSE (mc.correctCharacters * 10000)
         \div (mc.correctCharacters + mc.incorrectCharacters)

calculateAccuracy(mc) ==
  IF ~mc.isSessionActive \/ ~mc.session THEN 10000
  ELSE IF mc.correctCharacters + mc.incorrectCharacters = 0 THEN 10000
  ELSE (2 * mc.correctCharacters * 10000
          + (mc.correctCharacters + mc.incorrectCharacters))
         \div (2 * (mc.correctCharacters + mc.incorrectCharacters))

\* calculateWPM and calculateAccuracy store what they return.
updateRealTimeMetrics(mc, now) ==
  IF ~mc.isSessionActive \/ ~mc.session THEN mc
  ELSE [mc EXCEPT !.currentWPM =
                      IF now - mc.startTime <= 0 THEN @
                      ELSE calculateWPM(mc, now),
                  !.currentAccuracy =
                      IF mc.correctCharacters + mc.incorrectCharacters = 0
                      THEN @ ELSE calculateAccuracy(mc)]

\* The counters and logs after the keystroke, before the live metrics are
\* updated.
\* Variant: a wrong keystroke is counted as a character but not as a
\* keystroke typed wrongly.
countKeystroke_WrongKeyUncounted(mc, correct, position) ==
  [mc EXCEPT
     !.keystrokeHistory = Append(@, correct),
     !.totalKeystrokes = @ + 1,
     !.correctKeystrokes = IF correct THEN @ + 1 ELSE @,
     !.correctCharacters = IF correct THEN @ + 1 ELSE @,
     !.incorrectCharacters = IF correct THEN @ ELSE @ + 1,
     !.errors = IF correct THEN @ ELSE Append(@, position),
     !.totalCharacters = mc.correctCharacters + mc.incorrectCharacters + 1]

countKeystroke(mc, correct, position) ==
  [mc EXCEPT
     !.keystrokeHistory = Append(@, correct),
     !.totalKeystrokes = @ + 1,
     !.correctKeystrokes = IF correct THEN @ + 1 ELSE @,
     !.correctCharacters = IF correct THEN @ + 1 ELSE @,
     !.incorrectKeystrokes = IF correct THEN @ ELSE @ + 1,
     !.incorrectCharacters = IF correct THEN @ ELSE @ + 1,
     !.errors = IF correct THEN @ ELSE Append(@, position),
     !.totalCharacters = mc.correctCharacters + mc.incorrectCharacters + 1]

\* Variant: the test for a running session is missing.
recordKeystroke_Unguarded(mc, correct, position, now) ==
  updateRealTimeMetrics(countKeystroke(mc, correct, position), now)

recordKeystroke(mc, correct, position, now) ==
  IF ~mc.isSessionActive \/ ~mc.session THEN mc
  ELSE updateRealTimeMetrics(countKeystroke(mc, correct, position), now)

\* Variant: a skipped character also counts as a character typed wrongly.
recordSkip_CountsAsTyped(mc, reason, count) ==
  IF ~mc.isSessionActive \/ ~mc.session THEN mc
  ELSE [mc EXCEPT !.skips = Append(@, [reason |-> reason, count |-> count]),
                  !.skippedCharacters = @ + count,
                  !.incorrectCharacters = @ + count]

recordSkip(mc, reason, count) ==
  IF ~mc.isSessionActive \/ ~mc.session THEN mc
  ELSE [mc EXCEPT !.skips = Append(@, [reason |-> reason, count |-> count]),
                  !.skippedCharacters = @ + count]

endSession(mc, now) ==
  IF ~mc.isSessionActive \/ ~mc.session THEN mc
  ELSE [mc EXCEPT !.endTime = now, !.isSessionActive = FALSE]

\* finalWPM of getSessionSummary, for a calculator whose session has ended.
finalWPM(mc) ==
  IF mc.endTime - mc.startTime > 0
  THEN WordsPerMinute(mc.correctCharacters, mc.endTime - mc.startTime)
  ELSE 0

\* The forEach of getSkipsByReason from the i-th skip on: byReason maps each
\* reason met so far to its number of entries and of characters.
RECURSIVE groupSkips(_, _, _)
groupSkips(skips, i, byReason) ==
  IF i > Len(skips) THEN byReason
  ELSE groupSkips(skips, i + 1,
         IF skips[i].reason \in DOMAIN byReason
         THEN [byReason EXCEPT ![skips[i].reason] =
                 [count |-> @.count + 1,
                  characters |-> @.characters + skips[i].count]]
         ELSE byReason @@ (skips[i].reason :>
                 [count |-> 1, characters |-> skips[i].count]))

NoSkipsByReason == [reason \in {} |-> [count |-> 0, characters |-> 0]]

\* Variant: a later skip of a reason replaces the entry of that reason.
getSkipsByReason_LastOnly(mc) ==
  IF ~mc.session THEN NoSkipsByReason
  ELSE [reason \in {mc.skips[i].reason : i \in DOMAIN mc.skips} |->
          [count |-> 1,
           characters |->
             mc.skips[CHOOSE i \in DOMAIN mc.skips :
                        /\ mc.skips[i].reason = reason
                        /\ \A j \in DOMAIN mc.skips :
                             mc.skips[j].reason = reason => j <= i].count]]

getSkipsByReason(mc) ==
  IF ~mc.session THEN NoSkipsByReason
  ELSE groupSkips(mc.skips, 1, NoSkipsByReason)

\* Variant: every call stamps the summary with the time of the call.
getSessionSummary_Restamped(mc, now) ==
  [startTime |-> mc.startTime,
   endTime |-> now,
   totalCharacters |-> mc.totalCharacters,
   correctCharacters |-> mc.correctCharacters,
   incorrectCharacters |-> mc.incorrectCharacters,
   skippedCharacters |-> mc.skippedCharacters,
   totalKeystrokes |-> mc.totalKeystrokes,
   wpm |-> finalWPM([mc EXCEPT !.endTime = now]),
   accuracy |-> calculateFinalAccuracy(mc),
   errorsCount |-> Len(mc.errors),
   skipsCount |-> Len(mc.skips),
   skipsByReason |-> getSkipsByReason(mc),
   errors |-> mc.errors,
   skips |-> mc.skips,
   keystrokeHistory |-> mc.keystrokeHistory]

\* getSessionSummary(), called at time now with this.session set: a session
\* still running is ended first.
getSessionSummary(mc, now) ==
  [startTime |-> mc.startTime,
   endTime |-> endSession(mc, now).endTime,
   totalCharacters |-> mc.totalCharacters,
   correctCharacters |-> mc.correctCharacters,
   incorrectCharacters |-> mc.incorrectCharacters,
   skippedCharacters |-> mc.skippedCharacters,
   totalKeystrokes |-> mc.totalKeystrokes,
   wpm |-> finalWPM(endSession(mc, now)),
   accuracy |-> calculateFinalAccuracy(mc),
   errorsCount |-> Len(mc.errors),
   skipsCount |-> Len(mc.skips),
   skipsByReason |-> getSkipsByReason(mc),
   errors |-> mc.errors,
   skips |-> mc.skips,
   keystrokeHistory |-> mc.keystrokeHistory]

reset(mc) == NewMetricsCalculator

\* TypingSession.getSessionSummary over its calculator mc, at time now:
\* let metrics = {defaults}; metrics = { ...metrics, ...calculatorMetrics }.
\* A key the calculator's summary does not carry keeps its default.
defaultMetrics ==
  [wpm |-> 0, accuracy |-> 0, totalCharacters |-> 0, correctCharacters |-> 0,
   skippedCharacters |-> 0, errorCount |-> 0]

spreadOver(defaults, summary) ==
  [k \in DOMAIN defaults \cup DOMAIN summary |->
     IF k \in DOMAIN summary THEN summary[k] ELSE defaults[k]]

sessionMetrics(mc, now) ==
  IF mc.session THEN spreadOver(defaultMetrics, getSessionSummary(mc, now))
  ELSE defaultMetrics

TypingSession_summaryMetrics(mc, now) ==
  [wpm |-> sessionMetrics(mc, now).wpm,
   accuracy |-> sessionMetrics(mc, now).accuracy,
   correctCharacters |-> sessionMetrics(mc, now).correctCharacters,
   skippedCharacters |-> sessionMetrics(mc, now).skippedCharacters,
   errorCount |-> sessionMetrics(mc, now).errorCount]

\* ---------------------------------------------------------- InputProcessor
\* cleanup(): removes the key listeners, cleans up the typing interface it
\* references and resets its own state.
InputProcessor_cleanup(S) ==
  LET S1 == IF S.s.ip.typingInterface THEN TypingInterface_cleanup(S) ELSE S
  IN  [S1 EXCEPT !.s.ip = NoInputProcessor]

\* ----------------------------------------------------------- TypingSession
\* Variant: the registry keeps its entry.
unregisterGlobalSession_Keeps(S) == S

unregisterGlobalSession(S) ==
  IF S.reg = "this" THEN [S EXCEPT !.reg = "null"] ELSE S

\* cleanup(): the steps of the try block.
cleanup_stop(S) ==
  [S EXCEPT !.s.isActive = FALSE, !.s.contentObserver = FALSE]

cleanup_inputProcessor(S) ==
  IF S.s.inputProcessor
  THEN [InputProcessor_cleanup(S) EXCEPT !.s.inputProcessor = FALSE]
  ELSE S

cleanup_typingInterface(S) ==
  IF S.s.typingInterface
  THEN [TypingInterface_cleanup(S) EXCEPT !.s.typingInterface = FALSE]
  ELSE S

\* Variant: the reference to the hints UI is dropped, its panel stays.
cleanup_hintsUI_KeepsPanel(S) ==
  IF S.s.hintsUI THEN [S EXCEPT !.s.hintsUI = FALSE] ELSE S

cleanup_hintsUI(S) ==
  IF S.s.hintsUI
  THEN [S EXCEPT !.hintsInDom = FALSE, !.s.hintsUI = FALSE]
  ELSE S

cleanup_metrics(S) ==
  [S EXCEPT !.s.metricsCalculator = FALSE, !.s.mc = NoMetricsCalculator,
            !.s.cleanupCallbacks = FALSE]

cleanup_reset(S) ==
  [S EXCEPT !.s.parentElement = NoHost, !.s.text = <<>>,
            !.s.originalState = FALSE, !.s.currentPosition = 0,
            !.s.sessionLock = FALSE]

\* cleanup(): every step, in order.
TypingSession_cleanup(S) ==
  cleanup_reset(unregisterGlobalSession(cleanup_metrics(cleanup_hintsUI(
    cleanup_typingInterface(cleanup_inputProcessor(cleanup_stop(S)))))))

\* forceCleanup(): what the catch block of cleanup() runs.
TypingSession_forceCleanup(S) ==
  [unregisterGlobalSession(S) EXCEPT !.overlayInDom = FALSE,
                                     !.hintsInDom = FALSE,
                                     !.s.isActive = FALSE,
                                     !.s.sessionLock = FALSE]

\* The steps of cleanup() that call into another object.
TeardownSteps == {"inputProcessor", "typingInterface", "hintsUI"}

\* The steps of the try block that precede step.
cleanup_before(S, step) ==
  IF step = "inputProcessor" THEN cleanup_stop(S)
  ELSE IF step = "typingInterface"
       THEN cleanup_inputProcessor(cleanup_stop(S))
  ELSE cleanup_typingInterface(cleanup_inputProcessor(cleanup_stop(S)))

\* cleanup() when the call made by step throws at once: the steps before it
\* have run, the rest of the try block is left, the catch block runs
\* forceCleanup().
TypingSession_cleanupThrowing(S, step) ==
  TypingSession_forceCleanup(cleanup_before(S, step))

\* getSessionSummary(endReason): the calculator's summary ends the
\* calculator's session; the position comes from the typing interface.
TypingSession_getSessionSummary(S, endReason) ==
  [endReason |-> endReason,
   completedCharacters |-> IF S.s.typingInterface
                           THEN S.s.ti.currentPosition ELSE 0,
   correctCharacters |-> S.s.mc.correctCharacters,
   skippedCharacters |-> S.s.mc.skippedCharacters,
   accuracy |-> IF S.s.metricsCalculator
                THEN calculateFinalAccuracy(S.s.mc) ELSE 0]

\* getStatus(): currentPosition is the session's own field, which only the
\* constructor and cleanup() assign.
TypingSession_getStatus(S) ==
  [isActive |-> S.s.isActive,
   currentPosition |-> S.s.currentPosition,
   hasTypingInterface |-> S.s.typingInterface,
   hasInputProcessor |-> S.s.inputProcessor,
   hasMetricsCalculator |-> S.s.metricsCalculator,
   hasHintsUI |-> S.s.hintsUI,
   sessionLock |-> S.s.sessionLock]

\* displaySessionSummary(summary): the summary is shown.
displaySessionSummary(S, summary) ==
  [S EXCEPT !.summaryLog = Append(@, summary.endReason)]

\* endSession(reason): the part after this.endTime has been set.  The
\* calculator's summary is taken, which ends the calculator's session.
endSession_summarise(S, reason) ==
  displaySessionSummary(
    IF S.s.metricsCalculator THEN MetricsCalculator_endSession(S) ELSE S,
    TypingSession_getSessionSummary(S, reason))

TypingSession_endSession(S, reason) ==
  IF ~S.s.isActive THEN S
  ELSE TypingSession_cleanup(
         endSession_summarise([S EXCEPT !.s.endTime = TRUE], reason))

\* hasActiveSessionOnPage(): the overlay, the hints panel, a registered
\* session other than this one, or any visible element whose class contains
\* "typing-" (highlighted paragraphs and the character spans of the in-place
\* engine carry such classes).
hasActiveSessionOnPage(S) ==
  \/ S.overlayInDom
  \/ S.hintsInDom
  \/ S.reg = "other"
  \/ \E h \in Hosts : /\ InDocument(S.dom, h)
                      /\ S.dom[h].highlighted \/ S.dom[h].kids = "spans"

\* initialize(selectedText, formattedContent, components)
TypingSession_initialize(S, h, text) ==
  IF S.s.sessionLock \/ S.s.isActive THEN S
  ELSE IF hasActiveSessionOnPage(S) THEN S
  ELSE
    LET S1 == [S EXCEPT !.s.parentElement = h, !.s.text = text,
                        !.s.originalState = TRUE,
                        !.s.originalContentHash =
                            simpleHash(textContent(S.dom, h)),
                        !.s.metricsCalculator = TRUE]
        S2 == MetricsCalculator_startSession(S1)
        S3 == TypingInterface_initialize(
                [S2 EXCEPT !.s.typingInterface = TRUE], text)
        S4 == [S3 EXCEPT !.s.inputProcessor = TRUE,
                         !.s.ip = [typingInterface |-> TRUE,
                                   currentPosition |-> 0,
                                   isProcessing |-> FALSE,
                                   eventListeners |-> TRUE],
                         !.s.hintsUI = TRUE, !.hintsInDom = TRUE,
                         !.s.contentObserver = TRUE,
                         !.s.cleanupCallbacks = TRUE,
                         !.s.isActive = TRUE]
    IN  [S4 EXCEPT !.reg = "this"]

\* initialize() when a step throws.  The state when the exception is
\* raised: the steps before the failing one are done; late says that the
\* failing step had put its element into the document, or registered a
\* listener, before it threw.
InitializeSteps == {"typingInterface", "inputProcessor", "hintsUI",
                    "monitoring"}

initialize_start(S, h, text) ==
  MetricsCalculator_startSession(
    [S EXCEPT !.s.sessionLock = TRUE, !.s.parentElement = h,
              !.s.text = text, !.s.originalState = TRUE,
              !.s.originalContentHash = simpleHash(textContent(S.dom, h)),
              !.s.metricsCalculator = TRUE])

\* typingInterface.initialize throws in renderTypingOverlay and clears
\* isInitialized before it throws again.
initialize_typingInterfaceThrows(S, text, late) ==
  [S EXCEPT !.s.typingInterface = TRUE, !.s.ti.session = TRUE,
            !.s.ti.text = text, !.s.ti.isInitialized = FALSE,
            !.s.ti.overlayElement = late,
            !.overlayInDom = IF late THEN TRUE ELSE @]

initialize_typingInterface(S, text) ==
  TypingInterface_initialize([S EXCEPT !.s.typingInterface = TRUE], text)

initialize_inputProcessor(S) ==
  [S EXCEPT !.s.inputProcessor = TRUE,
            !.s.ip = [typingInterface |-> TRUE, currentPosition |-> 0,
                      isProcessing |-> FALSE, eventListeners |-> TRUE]]

initialize_hintsUI(S, panel) ==
  [S EXCEPT !.s.hintsUI = TRUE, !.hintsInDom = IF panel THEN TRUE ELSE @]

initialize_monitoring(S, listeners) ==
  [S EXCEPT !.s.contentObserver = TRUE, !.s.cleanupCallbacks = listeners]

initialize_before(S, h, text, step, late) ==
  IF step = "typingInterface"
  THEN initialize_typingInterfaceThrows(initialize_start(S, h, text),
                                        text, late)
  ELSE IF step = "inputProcessor"
  THEN initialize_typingInterface(initialize_start(S, h, text), text)
  ELSE IF step = "hintsUI"
  THEN initialize_hintsUI(
         initialize_inputProcessor(
           initialize_typingInterface(initialize_start(S, h, text), text)),
         late)
  ELSE initialize_monitoring(
         initialize_hintsUI(
           initialize_inputProcessor(
             initialize_typingInterface(initialize_start(S, h, text), text)),
           TRUE),
         late)

\* Variant: the catch block releases the lock and returns false.
TypingSession_initializeThrowing_NoCleanup(S, h, text, step, late) ==
  IF S.s.sessionLock \/ S.s.isActive THEN S
  ELSE IF hasActiveSessionOnPage(S) THEN S
  ELSE [initialize_before(S, h, text, step, late)
          EXCEPT !.s.sessionLock = FALSE]

\* The catch block: sessionLock = false; await this.cleanup(); return false.
TypingSession_initializeThrowing(S, h, text, step, late) ==
  IF S.s.sessionLock \/ S.s.isActive THEN S
  ELSE IF hasActiveSessionOnPage(S) THEN S
  ELSE TypingSession_cleanup(
         [initialize_before(S, h, text, step, late)
            EXCEPT !.s.sessionLock = FALSE])

\* ----------------------------------------------------------- content script
\* Once currentTypingSession is null nothing references the TypingSession
\* object any more; the model then holds the blank object NoSession.
NoSession == NewTypingSession

cleanupCurrentSession(S) ==
  IF S.cur
  THEN [TypingSession_cleanup(S) EXCEPT !.cur = FALSE, !.s = NoSession]
  ELSE S

\* cleanupCurrentSession() when a step of cleanup() throws: cleanup() still
\* resolves, the global is nulled; the listeners left behind keep the
\* session object alive.
cleanupCurrentSessionThrowing(S, step) ==
  IF S.cur
  THEN [TypingSession_cleanupThrowing(S, step) EXCEPT !.cur = FALSE]
  ELSE S

\* highlightAvailableParagraphs / removeAllParagraphHighlights act on the
\* elements that are in the document.
highlightAvailableParagraphs(d) ==
  [h \in Hosts |-> IF isParagraphSuitable(d, h)
                   THEN [d[h] EXCEPT !.highlighted = TRUE] ELSE d[h]]

removeAllParagraphHighlights(d) ==
  [h \in Hosts |-> IF InDocument(d, h) /\ d[h].highlighted
                   THEN [d[h] EXCEPT !.highlighted = FALSE] ELSE d[h]]

activateSelectionMode(S) ==
  IF S.selMode THEN S
  ELSE [S EXCEPT !.selMode = TRUE, !.dom = highlightAvailableParagraphs(@)]

deactivateSelectionMode(S) ==
  IF ~S.selMode THEN S
  ELSE [S EXCEPT !.selMode = FALSE, !.dom = removeAllParagraphHighlights(@)]

\* TypingSession.forceCleanupExistingSessions(): cleans up the registered
\* session, then removes every element matching one of the selectors; the
\* selector [class*="typing-practice"] also matches the paragraphs that
\* selection mode has highlighted.
forceCleanup_registry(S) ==
  IF S.reg = "this"
  THEN [TypingSession_cleanup(S) EXCEPT !.reg = "null"]
  ELSE [S EXCEPT !.reg = "null"]

forceCleanup_elements(S) ==
  [S EXCEPT !.overlayInDom = FALSE, !.hintsInDom = FALSE,
            !.dom = [h \in Hosts |->
                       IF InDocument(S.dom, h) /\ S.dom[h].highlighted
                       THEN [S.dom[h] EXCEPT !.attached = FALSE]
                       ELSE S.dom[h]]]

forceCleanupExistingSessions(S) ==
  forceCleanup_elements(forceCleanup_registry(S))

\* processValidSelection(selectedText): the selection lies in element h and
\* reads text.
\* if (currentTypingSession) await cleanupCurrentSession();
cleanupExisting(S) == IF S.cur THEN cleanupCurrentSession(S) ELSE S

\* currentTypingSession = new TypingSession(): a session still registered
\* would now be another object than the current one.
createSession(S) ==
  [S EXCEPT !.cur = TRUE, !.s = NewTypingSession, !.newSession = TRUE,
            !.reg = IF @ = "this" THEN "other" ELSE @]

\* if (!success) { ...; currentTypingSession = null; return; }
showTemporaryMessage(S, type) == [S EXCEPT !.message = type]

showSelectionError(S) == showTemporaryMessage(S, "error")

showSelectionSuccess(S) == showTemporaryMessage(S, "success")

dropIfNotStarted(S) ==
  IF S.s.isActive THEN showSelectionSuccess(S)
  ELSE [showSelectionError(S) EXCEPT !.cur = FALSE, !.s = NoSession]

processValidSelection(S, h, text) ==
  dropIfNotStarted(
    TypingSession_initialize(
      createSession(deactivateSelectionMode(cleanupExisting(
        forceCleanupExistingSessions(S)))),
      h, text))

\* The session handed to initialize by processValidSelection.
beforeInitialize(S) ==
  createSession(deactivateSelectionMode(cleanupExisting(
    forceCleanupExistingSessions(S))))

\* processValidSelection when a step of initialize throws.
processValidSelectionThrowing(S, h, text, step, late) ==
  dropIfNotStarted(
    TypingSession_initializeThrowing(beforeInitialize(S), h, text, step,
                                     late))

\* ------------------------------------------------- InputProcessor: typing
\* handleTypingComplete(): setTimeout(() => cleanupCurrentSession(), 2000).
\* Its completion message is not recorded: shownMessage follows the messages
\* of the selection, cleanup and validation handlers only.
handleTypingComplete(S) == [S EXCEPT !.timers = @ + 1]

IsComplete(S) ==
  /\ S.s.ti.session
  /\ Len(S.s.ti.text) > 0
  /\ S.s.ip.currentPosition >= Len(S.s.ti.text)

\* if (this.isTypingComplete()) this.handleTypingComplete();
checkComplete(S) == IF IsComplete(S) THEN handleTypingComplete(S) ELSE S

\* this.typingInterface.highlightProgress(this.currentPosition)
showProgress(S) == TypingInterface_highlightProgress(S, S.s.ip.currentPosition)

handleCorrectInput(S, position) ==
  checkComplete(
    TypingInterface_clearError(
      showProgress([S EXCEPT !.s.ip.currentPosition = @ + 1]), position))

\* Variant: a mismatch is marked and the position advances all the same.
handleIncorrectInput_Advancing(S, position) ==
  [TypingInterface_showError(S, position) EXCEPT !.s.ip.currentPosition = @ + 1]

handleIncorrectInput(S, position) == TypingInterface_showError(S, position)

\* The reason processKeyInput returns with.
processKeyInputResult(S, key) ==
  IF S.s.ip.isProcessing THEN "already_processing"
  ELSE IF ~S.s.ti.session THEN "no_session"
  ELSE IF validateCharacter(key, At(S.s.ti.text, S.s.ip.currentPosition))
       THEN "correct"
  ELSE "incorrect"

\* Variant: the test of isProcessing at the head of the call is missing.
processKeyInput_Unguarded(S, key) ==
  IF ~S.s.ti.session THEN [S EXCEPT !.s.ip.isProcessing = FALSE]
  ELSE
    LET position == S.s.ip.currentPosition
        expectedChar == At(S.s.ti.text, position)
        isValid == validateCharacter(key, expectedChar)
        Busy == [S EXCEPT !.s.ip.isProcessing = TRUE]
    IN  [(IF isValid THEN handleCorrectInput(Busy, position)
          ELSE handleIncorrectInput(Busy, position))
         EXCEPT !.s.ip.isProcessing = FALSE]

\* processKeyInput(event): isProcessing is set for the duration of the call
\* and cleared in the finally block.
processKeyInput(S, key) ==
  IF S.s.ip.isProcessing THEN S
  ELSE IF ~S.s.ti.session THEN S
  ELSE
    LET position == S.s.ip.currentPosition
        expectedChar == At(S.s.ti.text, position)
        isValid == validateCharacter(key, expectedChar)
        Busy == [S EXCEPT !.s.ip.isProcessing = TRUE]
    IN  [(IF isValid THEN handleCorrectInput(Busy, position)
          ELSE handleIncorrectInput(Busy, position))
         EXCEPT !.s.ip.isProcessing = FALSE]

\* ------------------------------------------------ page unload and errors
\* handlePageUnload(): the listener a session registers for beforeunload and
\* unload.
handlePageUnload(S) ==
  IF ~S.s.isActive THEN S
  ELSE [unregisterGlobalSession(
          IF S.s.metricsCalculator THEN MetricsCalculator_endSession(S)
          ELSE S)
        EXCEPT !.overlayInDom = FALSE]

\* Variant: the content script leaves the unload to the session's listener.
unloadCleanupHandler_Idle(S) == S

\* The cleanupHandler of setupPageUnloadCleanup.
unloadCleanupHandler(S) ==
  IF S.cur /\ S.s.isActive THEN cleanupCurrentSession(S) ELSE S

\* The session's listener runs while the cleanup callbacks have not removed
\* it.
sessionUnloadListener(S) ==
  IF S.s.cleanupCallbacks THEN handlePageUnload(S) ELSE S

\* A beforeunload or unload event: the content script's listener was
\* registered first, the session's listener after it.
pageUnload(S) == sessionUnloadListener(unloadCleanupHandler(S))

\* handleSessionError(error): the calculator's summary is taken, a message
\* is shown, the session is ended with the reason "error".
handleSessionError(S) ==
  TypingSession_endSession(
    IF S.s.metricsCalculator THEN MetricsCalculator_endSession(S) ELSE S,
    "error")

\* The listener of setupErrorRecovery for the window's error event.
errorHandler(S) ==
  IF S.s.cleanupCallbacks /\ S.s.isActive THEN handleSessionError(S) ELSE S

\* ---------------------------------------------- InputProcessor: shortcuts
\* markCharacterAsSkipped for every offset of from..to-1, in order.
\* Variant: a skip is logged once, at the offset it started from.
markSkipped_Once(S, from, to) ==
  IF ~S.s.ti.session THEN S
  ELSE [S EXCEPT !.s.ti.skippedCharacters =
                     Append(@, [position |-> from, method |-> "shortcut"])]

markSkipped(S, from, to) ==
  IF ~S.s.ti.session THEN S
  ELSE [S EXCEPT !.s.ti.skippedCharacters =
                     @ \o [i \in 1..(to - from) |->
                             [position |-> from + i - 1,
                              method |-> "shortcut"]]]

skipCharacter(S) ==
  IF ~S.s.ti.session \/ S.s.ip.currentPosition >= Len(S.s.ti.text) THEN S
  ELSE
    LET position == S.s.ip.currentPosition
        Marked == markSkipped(S, position, position + 1)
    IN  checkComplete(
          showProgress([Marked EXCEPT !.s.ip.currentPosition = @ + 1]))

\* nextPosition: the boundary found, or the end of the text.
boundaryOrEnd(text, found) == IF found = -1 THEN Len(text) ELSE found

skipTo(S, startPosition, nextPosition) ==
  checkComplete(
    showProgress([markSkipped(S, startPosition, nextPosition)
                    EXCEPT !.s.ip.currentPosition = nextPosition]))

skipParagraph(S) ==
  IF ~S.s.ti.session \/ S.s.ip.currentPosition >= Len(S.s.ti.text) THEN S
  ELSE skipTo(S, S.s.ip.currentPosition,
              boundaryOrEnd(S.s.ti.text,
                findNextParagraphBoundary(S.s.ti.text,
                                          S.s.ip.currentPosition)))

\* exitSession(): a message, then cleanupCurrentSession().
exitSession(S) == cleanupCurrentSession(S)

\* this.typingInterface.clearError(this.currentPosition)
clearErrorHere(S) == TypingInterface_clearError(S, S.s.ip.currentPosition)

\* Variant: the test currentPosition > 0 is missing.
handleBackspace_Unguarded(S) ==
  showProgress(clearErrorHere([S EXCEPT !.s.ip.currentPosition = @ - 1]))

handleBackspace(S) ==
  IF S.s.ip.currentPosition > 0
  THEN showProgress(clearErrorHere([S EXCEPT !.s.ip.currentPosition = @ - 1]))
  ELSE S

ShortcutKeys == {"Tab", "Shift+Tab", "Escape"}
SpecialKeys == {"Backspace", "Delete", "ArrowLeft", "Home"}

handleShortcut(S, key) ==
  IF ~S.s.ti.session THEN S
  ELSE IF key = "Tab" THEN skipCharacter(S)
  ELSE IF key = "Shift+Tab" THEN skipParagraph(S)
  ELSE exitSession(S)

processSpecialKey(S, key) ==
  IF key = "Backspace" THEN handleBackspace(S) ELSE S

\* The keydown and keypress listeners of the InputProcessor run only while
\* they are registered.  prevented records event.preventDefault().
InputProcessor_handleKeyDown(S, key) ==
  IF ~S.s.ip.eventListeners THEN S
  ELSE IF ~S.s.ip.typingInterface \/ ~TypingInterface_isActive(S) THEN S
  ELSE IF key \in ShortcutKeys
       THEN [handleShortcut(S, key) EXCEPT !.prevented = TRUE]
  ELSE IF key \in SpecialKeys
       THEN [processSpecialKey(S, key) EXCEPT !.prevented = TRUE]
  ELSE S

InputProcessor_handleKeyPress(S, key) ==
  IF ~S.s.ip.eventListeners THEN S
  ELSE IF ~S.s.ip.typingInterface \/ ~TypingInterface_isActive(S) THEN S
  ELSE processKeyInput(S, key)

\* ------------------------------------------------------------ InlineTyping
\* startTyping(paragraphElement): the element's children are replaced by one
\* span per character and a new key handler is registered.
InlineTyping_startTyping(S, h) ==
  LET text == textContent(S.dom, h)
  IN  [S EXCEPT
        !.inl = [originalElement |-> h, originalText |-> text,
                 currentPosition |-> 0, isActive |-> TRUE,
                 keyHandlerRegistered |-> TRUE,
                 staleHandlers |-> IF S.inl.keyHandlerRegistered
                                   THEN S.inl.staleHandlers + 1
                                   ELSE S.inl.staleHandlers],
        !.dom = [x \in Hosts |->
                   IF x = h THEN [S.dom[x] EXCEPT !.editable = TRUE,
                                                  !.kids = "spans",
                                                  !.written = text]
                   ELSE IF Parent(x) = h
                        THEN [S.dom[x] EXCEPT !.attached = FALSE]
                   ELSE S.dom[x]]]

\* if (this.originalElement) { contentEditable = false; textContent = ... }
restoreElement(S, el) ==
  IF el # NoHost
  THEN [S EXCEPT !.dom[el].editable = FALSE, !.dom[el].kids = "text",
                 !.dom[el].written = S.inl.originalText]
  ELSE S

InlineTyping_cleanup(S) ==
  [restoreElement(S, S.inl.originalElement)
     EXCEPT !.inl.keyHandlerRegistered = FALSE, !.inl.isActive = FALSE]

\* One run of a key handler registered by setupKeyListener.  At a position
\* past the last span the handler throws before it changes anything.
\* if (this.currentPosition >= this.originalText.length)
\*   setTimeout(() => this.cleanup(), 1000);
inlineCheckComplete(S) ==
  IF S.inl.currentPosition >= Len(S.inl.originalText)
  THEN [S EXCEPT !.inlTimers = @ + 1] ELSE S

\* The handler after e.preventDefault() and the Escape test.
inlineCompare(S, key) ==
  IF At(S.inl.originalText, S.inl.currentPosition) = "" THEN S
  ELSE IF key = At(S.inl.originalText, S.inl.currentPosition)
       THEN inlineCheckComplete([S EXCEPT !.inl.currentPosition = @ + 1])
  ELSE S

\* const span = this.originalElement.children[this.currentPosition] is
\* undefined past the last span, and so is expected; the key then differs
\* from expected and the else branch reads span.classList.
readsMissingSpan(S, key) ==
  /\ S.inl.isActive
  /\ key # "Escape"
  /\ At(S.inl.originalText, S.inl.currentPosition) = ""

InlineTyping_keyHandler(S, key) ==
  IF ~S.inl.isActive THEN S
  ELSE IF key = "Escape"
       THEN [InlineTyping_cleanup(S) EXCEPT !.prevented = TRUE]
  ELSE inlineCompare([S EXCEPT !.prevented = TRUE], key)

\* The handlers of earlier startTyping calls run first, then the current one
\* if it is still registered.
RECURSIVE RunStaleHandlers(_, _, _)
RunStaleHandlers(S, key, n) ==
  IF n = 0 THEN S
  ELSE RunStaleHandlers(InlineTyping_keyHandler(S, key), key, n - 1)

\* The current handler runs if it was registered when the event was
\* dispatched (before) and has not been removed since (S).
RunCurrentHandler(before, S, key) ==
  IF before.inl.keyHandlerRegistered /\ S.inl.keyHandlerRegistered
  THEN InlineTyping_keyHandler(S, key) ELSE S

InlineTyping_dispatch(S, key) ==
  RunCurrentHandler(S, RunStaleHandlers(S, key, S.inl.staleHandlers), key)

\* ------------------------------------------- content script: page events
processSelectedParagraph(S, h) ==
  showSelectionSuccess(
    InlineTyping_startTyping(deactivateSelectionMode(cleanupExisting(S)), h))

handleParagraphClick(S, target) ==
  IF ~S.selMode THEN S
  ELSE IF findParagraphElement(S.dom, target) # NoHost
       THEN processSelectedParagraph(S, findParagraphElement(S.dom, target))
  ELSE S

\* validateSelection for a selection of text inside element h.

validateSelection(S, h, text) ==
  /\ h # NoHost
  /\ TrimmedLength(text) >= MinSelectionLength
  /\ ~isWithinEditableElement(S.dom, h)

\* handleKeyDown of the content script; sel is the current selection,
\* <<h, text>>, or <<>> when nothing is selected.
ContentScript_handleKeyDown(S, key, sel) ==
  IF ~S.selMode THEN S
  ELSE IF key = "Escape"
       THEN [deactivateSelectionMode(S) EXCEPT !.prevented = TRUE]
  ELSE IF key = "Enter" /\ sel # <<>>
       THEN IF validateSelection(S, sel[1], sel[2])
            THEN processValidSelection([S EXCEPT !.prevented = TRUE],
                                       sel[1], sel[2])
            ELSE [S EXCEPT !.prevented = TRUE]
  ELSE S

\* A key press: the keydown listeners in the order of their registration,
\* then, unless the default was prevented, the keypress listener.  Listeners
\* added while the keydown is dispatched do not see that keydown.
KeypressKeys == Chars \cup {"Enter"}

\* The keydown listener of the InputProcessor runs if it was registered
\* when the event was dispatched (before) and is still registered (S) on the
\* same session.
RunInputKeyDown(before, S, key) ==
  IF before.s.ip.eventListeners /\ S.s.ip.eventListeners /\ ~S.newSession
  THEN InputProcessor_handleKeyDown(S, key) ELSE S

\* The keypress event follows unless the keydown's default was prevented.
RunKeyPress(S, key) ==
  IF ~S.prevented /\ key \in KeypressKeys
  THEN InputProcessor_handleKeyPress(S, key) ELSE S

DispatchKey(S, key, sel) ==
  RunKeyPress(
    RunInputKeyDown(S,
      InlineTyping_dispatch(ContentScript_handleKeyDown(S, key, sel), key),
      key),
    key)

handleForceCleanup(S) ==
  showTemporaryMessage(
    deactivateSelectionMode(forceCleanupExistingSessions(cleanupExisting(S))),
    "success")

\* --------------------------------------------- TypingSession: monitoring
\* h lies in the subtree the content observer watches.
RECURSIVE IsWithin(_, _, _)
IsWithin(d, h, root) ==
  IF h = "body" \/ root = NoHost THEN FALSE
  ELSE IF h = root THEN TRUE
  ELSE d[h].attached /\ IsWithin(d, Parent(h), root)

\* createContentHash(): '' when the session holds no selection.
NoContentHash == <<-2, -2>>

createContentHash(S) ==
  IF S.s.parentElement = NoHost THEN NoContentHash
  ELSE simpleHash(textContent(S.dom, S.s.parentElement))

\* showContentChangeWarning(): a notice is put on the page.
showContentChangeWarning(S) == [S EXCEPT !.warnings = @ + 1]

handleSignificantContentChange(S) ==
  TypingSession_endSession(showContentChangeWarning(S), "content_changed")

\* Variant: neither the session's being active nor the place of the
\* mutation is tested.
handleContentChanges_Untested(S, target) ==
  IF createContentHash(S) # S.s.originalContentHash
  THEN handleSignificantContentChange(S)
  ELSE S

handleContentChanges(S, target) ==
  IF ~S.s.isActive THEN S
  ELSE IF IsWithin(S.dom, target, S.s.parentElement)
          /\ createContentHash(S) # S.s.originalContentHash
       THEN handleSignificantContentChange(S)
  ELSE S

\* ------------------------------------- TypingSession: periodic validation
validateSessionState(S) ==
  IF ~S.s.isActive THEN FALSE
  ELSE IF ~S.overlayInDom THEN FALSE
  ELSE IF /\ S.s.parentElement # NoHost
          /\ ~(S.s.typingInterface /\ TypingInterface_isActive(S))
          /\ ~InDocument(S.dom, S.s.parentElement)
       THEN FALSE
  ELSE IF S.s.typingInterface /\ ~S.s.ti.isInitialized THEN FALSE
  ELSE IF /\ S.s.originalContentHash # NoHash
          /\ createContentHash(S) # S.s.originalContentHash
       THEN FALSE
  ELSE TRUE

assessRecoveryPossibility(S) ==
  IF S.s.parentElement = NoHost THEN FALSE
  ELSE IF ~InDocument(S.dom, S.s.parentElement) THEN FALSE
  ELSE S.s.metricsCalculator

\* The overlay, then the hints panel, are put back if they are missing.
recovery_overlay(S) ==
  IF ~S.overlayInDom /\ S.s.typingInterface
  THEN TypingInterface_renderTypingOverlay(S) ELSE S

recovery_hints(S) ==
  IF ~S.hintsInDom /\ S.s.hintsUI /\ S.s.metricsCalculator
  THEN [S EXCEPT !.hintsInDom = TRUE] ELSE S

\* Re-validation after the recovery attempt.
recovery_revalidate(S) ==
  IF validateSessionState(S) THEN S
  ELSE TypingSession_endSession(S, "recovery_failed")

attemptSessionRecovery(S) ==
  IF ~assessRecoveryPossibility(S)
  THEN TypingSession_endSession(S, "recovery_failed")
  ELSE recovery_revalidate(recovery_hints(recovery_overlay(S)))

\* The callback of setInterval(..., 5000) in setupSessionValidation.
validationTick(S) ==
  IF ~(S.cur /\ S.s.isActive) THEN S
  ELSE IF S.s.typingInterface /\ TypingInterface_isActive(S) THEN S
  ELSE IF validateSessionState(S) THEN S
  ELSE attemptSessionRecovery(S)

\* handleValidateSession(): the validateSession message.  recovered is
\* what attemptSessionRecovery returns: the session is still active.
reportRecovery(S) ==
  showTemporaryMessage(S, IF S.s.isActive THEN "success" ELSE "error")

handleValidateSession(S) ==
  IF ~(S.cur /\ S.s.isActive) THEN showTemporaryMessage(S, "info")
  ELSE IF validateSessionState(S) THEN showTemporaryMessage(S, "success")
  ELSE reportRecovery(attemptSessionRecovery(S))

\* ----------------------------------------------------------- the behaviour
\* The page as loaded, the content script just injected.
Loaded ==
  [dom |-> [h \in Hosts |-> HostInit], overlayInDom |-> FALSE,
   hintsInDom |-> FALSE, selMode |-> FALSE, cur |-> FALSE, reg |-> "null",
   s |-> NoSession, inl |-> NewInlineTyping, timers |-> 0, inlTimers |-> 0,
   summaryLog |-> <<>>, warnings |-> 0, prevented |-> FALSE,
   newSession |-> FALSE, message |-> NoMessage]

PageIs(n) ==
  /\ dom = n.dom
  /\ overlayInDom = n.overlayInDom
  /\ hintsInDom = n.hintsInDom
  /\ isSelectionModeActive = n.selMode
  /\ currentTypingSession = n.cur
  /\ typingPracticeActiveSession = n.reg
  /\ session = n.s
  /\ inlineTyping = n.inl
  /\ completionTimers = n.timers
  /\ inlineTimers = n.inlTimers
  /\ summaryLog = n.summaryLog
  /\ warnings = n.warnings
  /\ shownMessage = n.message
  /\ calculator = NewMetricsCalculator
  /\ clock = 0

NoCall == <<>>

Is(n) == PageIs(n) /\ call = NoCall /\ returned = <<>>

Init == Is(Loaded)

WithinBounds(n) ==
  /\ Len(n.summaryLog) <= MaxSummaries
  /\ n.timers <= MaxTimers
  /\ n.inlTimers <= MaxTimers
  /\ n.inl.staleHandlers <= MaxStaleHandlers
  /\ Len(n.s.ti.errors) <= MaxErrors
  /\ Len(n.s.ti.skippedCharacters) <= MaxSkips

Step(n) == WithinBounds(n) /\ Becomes(n)

\* What the user can select inside h: the first characters of its text.
SelectionTexts(d, h) ==
  {SubSeq(textContent(d, h), 1, n) :
     n \in {m \in MinSelectionLength..MaxTextLen : m <= Len(textContent(d, h))}}

\* The keys pressed while the page as a whole is explored.
PageKeys == {"c", "a", "t", " ", "x", "Tab", "Shift+Tab", "Escape"}

\* Extension messages.
ActivateSelectionModeMessage == Step(activateSelectionMode(Cur))

DeactivateSelectionModeMessage == Step(deactivateSelectionMode(Cur))

ForceCleanupMessage == Step(handleForceCleanup(Cur))

\* A click on element h of the document.
ParagraphClick(h) ==
  /\ isSelectionModeActive
  /\ InDocument(dom, h)
  /\ Step(handleParagraphClick(Cur, h))

\* Enter pressed while text of element h is selected.
ConfirmSelection(h, text) ==
  /\ isSelectionModeActive
  /\ InDocument(dom, h)
  /\ Step(DispatchKey(Cur, "Enter", <<h, text>>))

\* Any other key press, nothing selected.
PressKey(key) == Step(DispatchKey(Cur, key, <<>>))

\* The callbacks of the two completion timers, run in state S.
completionTimerFires(S) == cleanupCurrentSession([S EXCEPT !.timers = @ - 1])

inlineTimerFires(S) == InlineTyping_cleanup([S EXCEPT !.inlTimers = @ - 1])

CompletionTimerFires ==
  /\ completionTimers > 0
  /\ Step(completionTimerFires(Cur))

InlineTimerFires ==
  /\ inlineTimers > 0
  /\ Step(inlineTimerFires(Cur))

\* A script of the page rewrites the text of an element it holds, in the
\* document or not, with another text (version 1) or with the same text
\* (version 2); the content observer of the session is called back.
HostMutation(h, version) ==
  /\ dom[h].kids = "orig"
  /\ dom[h].own = 0
  /\ Cardinality({x \in Hosts : dom[x].own # 0}) < MaxMutations
  /\ Step(handleContentChanges([Cur EXCEPT !.dom[h].own = version], h))

\* A script of the page takes the overlay out of the document.
PageRemovesOverlay ==
  /\ overlayInDom
  /\ Step([Cur EXCEPT !.overlayInDom = FALSE])

\* The validation interval elapses.
ValidationTick == Step(validationTick(Cur))

ValidateSessionMessage == Step(handleValidateSession(Cur))

\* The user confirms a selection and a step of initialize throws.
InitializeThrows(h, text, step, late) ==
  /\ isSelectionModeActive
  /\ InDocument(dom, h)
  /\ validateSelection(Cur, h, text)
  /\ Step(processValidSelectionThrowing(Cur, h, text, step, late))

PageUnload == Step(pageUnload(Cur))

UncaughtError == Step(errorHandler(Cur))

Next ==
  \/ ActivateSelectionModeMessage
  \/ DeactivateSelectionModeMessage
  \/ ForceCleanupMessage
  \/ \E h \in Hosts : ParagraphClick(h)
  \/ \E h \in Hosts : \E text \in SelectionTexts(dom, h) :
        ConfirmSelection(h, text)
  \/ \E key \in PageKeys : PressKey(key)
  \/ CompletionTimerFires
  \/ InlineTimerFires
  \/ \E h \in Hosts : HostMutation(h, 1)
  \/ ValidationTick

Spec == Init /\ [][Next]_vars

\* ------------------------------------------- the overlay session's life
\* The page without the in-place engine: sessions are started by confirming
\* a selection and end by keys, timers, messages and what the page does to
\* the host element and to the overlay.
SessionKeys == {"c", "a", "t", "x", "Tab", "Escape"}

NextSession ==
  \/ ActivateSelectionModeMessage
  \/ ForceCleanupMessage
  \/ \E h \in Hosts : \E text \in SelectionTexts(dom, h) :
        ConfirmSelection(h, text)
  \/ \E key \in SessionKeys : PressKey(key)
  \/ CompletionTimerFires
  \/ \E h \in Hosts : \E version \in {1, 2} : HostMutation(h, version)
  \/ PageRemovesOverlay
  \/ ValidationTick
  \/ PageUnload
  \/ UncaughtError
  \/ \E h \in Hosts : \E text \in SelectionTexts(dom, h) :
       \E step \in InitializeSteps : \E late \in BOOLEAN :
         InitializeThrows(h, text, step, late)

SpecSession == Init /\ [][NextSession]_vars

\* ------------------------------------------------- validation and recovery
\* An overlay session is started and typed into; the page removes the
\* overlay or detaches elements; the session is validated by the interval
\* and by the validateSession message.
NextRecovery ==
  \/ ActivateSelectionModeMessage
  \/ \E h \in Hosts : \E text \in SelectionTexts(dom, h) :
        ConfirmSelection(h, text)
  \/ \E key \in SessionKeys : PressKey(key)
  \/ CompletionTimerFires
  \/ PageRemovesOverlay
  \/ ValidationTick
  \/ ValidateSessionMessage

SpecRecovery == Init /\ [][NextRecovery]_vars

\* ------------------------------------------------- the Input Engine alone
\* A session has just been started on a selection that reads text; from then
\* on only keys are pressed and the completion timer runs.
InputTexts ==
  {<<"c", "a", "t">>, <<"C", " ", "\n">>, <<"a", "\n", "\n", "b">>,
   <<"a", "\n", "b", "c">>, <<"a", ".", " ", "B">>, <<"\t", NBSP, "\r", "x">>}

TypedKeys == {"a", "b", "c", "t", "x", "C", "\n", "\r", " ", NBSP, "\t", "."}
InputKeys == TypedKeys \cup ShortcutKeys \cup {"Backspace", "Delete", "Enter"}

InitInput ==
  \E text \in InputTexts :
    Is(processValidSelection(activateSelectionMode(Loaded), "D", text))

TypeKey(key) == Step(DispatchKey(Cur, key, <<>>))

NextInput ==
  \/ \E key \in InputKeys : TypeKey(key)
  \/ CompletionTimerFires

SpecInput == InitInput /\ [][NextInput]_vars

\* ---------------------------------------------- teardown with a failure
\* The Input Engine as above; in addition the session may be torn down by
\* cleanupCurrentSession() with one step of cleanup() throwing.
CleanupThrows(step) ==
  /\ currentTypingSession
  /\ session.isActive
  /\ Step(cleanupCurrentSessionThrowing(Cur, step))

NextTeardown ==
  \/ \E key \in InputKeys : TypeKey(key)
  \/ CompletionTimerFires
  \/ \E step \in TeardownSteps : CleanupThrows(step)

SpecTeardown == InitInput /\ [][NextTeardown]_vars

\* ------------------------------------------- the Metrics Engine alone
\* A MetricsCalculator is driven directly by its caller; the page stays as
\* loaded.  The clock reads any of ClockValues: time passes, or the clock
\* of the machine is set back.
ClockValues == {0, 1, 20000}
SkipCounts == {1, 2}
SkipReasons == {"tab", "shift-tab"}

pageVars ==
  <<dom, overlayInDom, hintsInDom, isSelectionModeActive,
    currentTypingSession, typingPracticeActiveSession, session, inlineTyping,
    completionTimers, inlineTimers, summaryLog, warnings, shownMessage>>

CalculatorBecomes(mc) ==
  /\ Len(mc.keystrokeHistory) <= MaxKeystrokes
  /\ Len(mc.skips) <= MaxSkipRecords
  /\ calculator' = mc
  /\ UNCHANGED <<clock, pageVars, call, returned>>

StartSession == CalculatorBecomes(startSession(calculator, clock))

RecordKeystroke(correct) ==
  CalculatorBecomes(
    recordKeystroke(calculator, correct, calculator.totalKeystrokes, clock))

RecordSkip(reason, count) ==
  CalculatorBecomes(recordSkip(calculator, reason, count))

\* getSessionSummary() returns null without a session and otherwise ends a
\* running session before it builds the summary.
GetSessionSummary ==
  /\ calculator.session
  /\ CalculatorBecomes(endSession(calculator, clock))

EndSession == CalculatorBecomes(endSession(calculator, clock))

Reset == CalculatorBecomes(reset(calculator))

ClockReads(t) ==
  /\ t # clock
  /\ clock' = t
  /\ UNCHANGED <<calculator, pageVars, call, returned>>

NextMetrics ==
  \/ StartSession
  \/ \E correct \in BOOLEAN : RecordKeystroke(correct)
  \/ \E reason \in SkipReasons : \E count \in SkipCounts :
       RecordSkip(reason, count)
  \/ EndSession
  \/ GetSessionSummary
  \/ Reset
  \/ \E t \in ClockValues : ClockReads(t)

SpecMetrics == Init /\ [][NextMetrics]_vars

\* ------------------------------------------- functions called alone
\* A function of the engine is called once on an argument: the page stays
\* as loaded.
Called(calls) == PageIs(Loaded) /\ call \in calls /\ returned = <<>>

Returns(name, value) ==
  /\ call # NoCall
  /\ call[1] = name
  /\ returned = <<>>
  /\ returned' = <<value>>
  /\ UNCHANGED <<call, calculator, clock, pageVars>>

\* The selections validateSelection is called on.
Elements ==
  {[tagName |-> "p", type |-> "", contentEditable |-> "inherit"],
   [tagName |-> "div", type |-> "", contentEditable |-> "true"],
   [tagName |-> "input", type |-> "", contentEditable |-> "inherit"],
   [tagName |-> "input", type |-> "number", contentEditable |-> "inherit"],
   [tagName |-> "textarea", type |-> "", contentEditable |-> "inherit"],
   [tagName |-> "select", type |-> "", contentEditable |-> "inherit"]}

Paths == UNION {[1..n -> Elements] : n \in 0..MaxAncestors}

SelectedTexts ==
  {<<>>, <<<<" ", 3>>>>, <<<<"a", 2>>>>, <<<<"a", 3>>>>,
   <<<<" ", 1>>, <<"a", 3>>, <<"\n", 1>>>>,
   <<<<"a", MaxSelectionLength>>>>,
   <<<<" ", 1>>, <<"a", MaxSelectionLength>>, <<" ", 1>>>>,
   <<<<"a", MaxSelectionLength>>, <<"b", 1>>>>}

Selections ==
  {[isNull |-> FALSE, rangeCount |-> 1, throws |-> FALSE, text |-> text,
    container |-> container, path |-> path, bodyEditable |-> bodyEditable] :
     text \in SelectedTexts, container \in {"text", "element"},
     path \in Paths, bodyEditable \in BOOLEAN}
  \cup
  {[isNull |-> isNull, rangeCount |-> rangeCount, throws |-> throws,
    text |-> text, container |-> container, path |-> <<>>,
    bodyEditable |-> FALSE] :
     isNull \in BOOLEAN, rangeCount \in {0, 1}, throws \in BOOLEAN,
     text \in SelectedTexts, container \in {"text", "none", "orphan"}}

InitSelection ==
  Called({<<"validateSelection", selection>> : selection \in Selections})

ValidateSelection ==
  Returns("validateSelection", TextSelectionHandler_validateSelection(call[2]))

SpecSelection == InitSelection /\ [][ValidateSelection]_vars

\* The texts and start positions findNextParagraphBoundary is called on; a
\* text is a sequence of characters here.
BoundaryChars == {"a", "B", "\n", " ", "."}

BoundaryTexts == UNION {[1..n -> BoundaryChars] : n \in 1..MaxBoundaryText}

InitBoundary ==
  Called({<<"findNextParagraphBoundary",
            [text |-> text, startPos |-> startPos]>> :
            text \in BoundaryTexts, startPos \in 0..(MaxBoundaryText - 1)})

FindNextParagraphBoundary ==
  /\ call # NoCall
  /\ call[2].startPos < Len(call[2].text)
  /\ Returns("findNextParagraphBoundary",
             findNextParagraphBoundary(call[2].text, call[2].startPos))

SpecBoundary == InitBoundary /\ [][FindNextParagraphBoundary]_vars

\* The pairs validateCharacter is called on: input is event.key or nothing,
\* expected is a character of the text or nothing.
InitCharacter ==
  Called({<<"validateCharacter", [input |-> input, expected |-> expected]>> :
            input \in Chars \cup KeyNames \cup {""},
            expected \in Chars \cup {""}})

ValidateCharacter ==
  Returns("validateCharacter",
          validateCharacter(call[2].input, call[2].expected))

SpecCharacter == InitCharacter /\ [][ValidateCharacter]_vars

\* ------------------------------------------------------------ formatting
\* A selection is a chain of nested elements: element i (1 the container)
\* holds one character of its own and then element i + 1, so it covers the
\* offsets i - 1 .. n - 1 of the text of n characters.  computedStyle is what
\* window.getComputedStyle reports for the element, "" for no value.
textStyles ==
  {"color", "backgroundColor", "fontSize", "fontWeight", "fontStyle",
   "textDecoration", "fontFamily", "lineHeight", "letterSpacing",
   "wordSpacing", "textTransform", "textAlign", "textShadow"}

isBlockElement(el) == el.tagName \in {"div", "p"}

\* getComputedStyles(element): { text, layout, computed }.
getComputedStyles(el) ==
  [text |-> [p \in {q \in DOMAIN el.computedStyle \cap textStyles :
                      el.computedStyle[q] \notin {"", "initial", "inherit"}}
               |-> el.computedStyle[p]],
   layout |-> IF isBlockElement(el) THEN [display |-> "block"] ELSE <<>>,
   computed |-> [p \in {q \in DOMAIN el.computedStyle \cap textStyles :
                          el.computedStyle[q] \notin {"", "initial", "inherit"}}
                   |-> el.computedStyle[p]]]

\* walkNodes(node, depth, parentStyles) for element i of the chain: its text
\* node, the nodes of its child, then its own element node.
RECURSIVE walkNodes(_, _, _)
walkNodes(els, i, parentStyles) ==
  <<[type |-> "text", tagName |-> "", startIndex |-> i - 1,
     endIndex |-> i - 1, depth |-> i,
     computedStyles |-> <<>>,
     inheritedStyles |-> spreadOver(parentStyles, getComputedStyles(els[i]))]>>
  \o (IF i < Len(els)
      THEN walkNodes(els, i + 1,
                     spreadOver(parentStyles, getComputedStyles(els[i])))
      ELSE <<>>)
  \o <<[type |-> "element", tagName |-> els[i].tagName,
        startIndex |-> i - 1, endIndex |-> Len(els) - 1, depth |-> i - 1,
        computedStyles |-> spreadOver(parentStyles,
                                      getComputedStyles(els[i])),
        inheritedStyles |-> <<>>]>>

byStartThenDepth(a, b) ==
  IF a.startIndex # b.startIndex THEN a.startIndex < b.startIndex
  ELSE a.depth < b.depth

parseFormatting(els) == SortSeq(walkNodes(els, 1, <<>>), byStartThenDepth)

isTextStyle(property) ==
  property \in {"color", "backgroundColor", "fontSize", "fontWeight",
                "fontStyle", "textDecoration", "fontFamily", "textTransform"}

\* applySpecialElementFormatting(charSpan, format, index), on the style.
applySpecialElementFormatting(style, format) ==
  IF format.tagName = "code"
  THEN ("fontFamily" :> "monospace") @@ style
  ELSE IF format.tagName = "u"
  THEN ("textDecoration" :> "underline") @@ style
  ELSE style

\* One element format of the forEach: r is [style, appliedStyles].
applyElementFormat(r, format) ==
  [style |->
     applySpecialElementFormatting(
       [k \in {q \in DOMAIN format.computedStyles :
                 isTextStyle(q) /\ q \notin r.appliedStyles}
          |-> format.computedStyles[k]] @@ r.style,
       format),
   appliedStyles |->
     r.appliedStyles \cup {q \in DOMAIN format.computedStyles :
                             isTextStyle(q)}]

RECURSIVE applyFormats(_, _, _)
applyFormats(sortedFormats, i, r) ==
  IF i > Len(sortedFormats) THEN r
  ELSE applyFormats(sortedFormats, i + 1,
         IF sortedFormats[i].type = "element"
         THEN applyElementFormat(r, sortedFormats[i]) ELSE r)

deeperFirst(a, b) == a.depth > b.depth

coversIndex(format, index) ==
  format.startIndex <= index /\ format.endIndex >= index

\* formatting.filter(...), then .sort(...), which sorts applicableFormats
\* itself.
applicableFormats(formatting, index) ==
  SortSeq(SelectSeq(formatting, LAMBDA f : coversIndex(f, index)),
          deeperFirst)

isTextFormat(f) == f.type = "text"

\* The text node's inherited styles, when no element style was applied.
applyInherited(r, textNodes) ==
  IF Len(textNodes) > 0 /\ r.appliedStyles = {}
  THEN [k \in {q \in DOMAIN textNodes[Len(textNodes)].inheritedStyles :
                 isTextStyle(q)}
          |-> textNodes[Len(textNodes)].inheritedStyles[k]] @@ r.style
  ELSE r.style

\* applyCharacterFormatting(charSpan, index, formatting): the resulting
\* charSpan.style, as a function of the properties that were set.
applyCharacterFormatting(index, formatting) ==
  applyInherited(
    applyFormats(applicableFormats(formatting, index), 1,
                 [style |-> <<>>, appliedStyles |-> {}]),
    SelectSeq(applicableFormats(formatting, index), isTextFormat))

\* The chains applyCharacterFormatting is called on.
MaxNesting == 2
ElementTags == {"span", "code"}
Colours == {"", "red", "blue"}
FontWeights == {"", "700"}

FormatElements ==
  {[tagName |-> t, computedStyle |-> [color |-> c, fontWeight |-> w]] :
     t \in ElementTags, c \in Colours, w \in FontWeights}

InitFormatting ==
  Called({<<"applyCharacterFormatting", [els |-> els, index |-> index]>> :
            els \in UNION {[1..n -> FormatElements] : n \in 1..MaxNesting},
            index \in 0..(MaxNesting - 1)})

ApplyCharacterFormatting ==
  /\ call # NoCall
  /\ call[2].index < Len(call[2].els)
  /\ Returns("applyCharacterFormatting",
             applyCharacterFormatting(call[2].index,
                                      parseFormatting(call[2].els)))

SpecFormatting == InitFormatting /\ [][ApplyCharacterFormatting]_vars

\* ------------------------------------------------------------ properties
position == session.ip.currentPosition
content == session.ti.text
errorMarks == session.ti.errorMarks

\* The key listeners of the session's InputProcessor are registered and act.
InputEngineLive ==
  /\ session.isActive
  /\ session.inputProcessor /\ session.ip.eventListeners
  /\ session.ip.typingInterface /\ session.ti.session
  /\ session.ti.isInitialized /\ session.ti.overlayElement

SkipKeys == {"Tab", "Shift+Tab"}

\* C1: while a session has an Input Engine, currentPosition is an integer of
\* 0..N, N the length of the content, after whatever keys were pressed.
C1_PositionWithinContent ==
  session.inputProcessor =>
    position \in Int /\ 0 <= position /\ position <= Len(content)

\* The end of the content has been reached after a mismatch and a skip.
C1_Witness ==
  /\ InputEngineLive
  /\ position = Len(content)
  /\ session.ti.errors # <<>>
  /\ session.ti.skippedCharacters # <<>>

\* The state a press of key leads to, nothing being selected.
AfterKey(key) == DispatchKey(Cur, key, <<>>)

PositionAfter(key) == AfterKey(key).s.ip.currentPosition

\* What Backspace makes of the position.
AfterBackspace(pos) == IF pos > 0 THEN pos - 1 ELSE 0

\* A matching key raises the position; Backspace lowers it by exactly one,
\* or leaves it at 0.
MatchAndBackspaceMoves ==
  /\ \A key \in TypedKeys :
       validateCharacter(key, At(content, position)) =>
         PositionAfter(key) > position
  /\ PositionAfter("Backspace") = AfterBackspace(position)

\* C2 as stated: from every state in which the Input Engine takes keys, a
\* matching key, Tab or Shift+Tab leaves the position strictly greater, and
\* Backspace leaves it one less, or 0 if it was 0.
C2_SkipAlwaysAdvances ==
  InputEngineLive =>
    /\ MatchAndBackspaceMoves
    /\ \A key \in SkipKeys : PositionAfter(key) > position

\* C2, amended: Tab and Shift+Tab leave the position strictly greater when
\* it is below the length of the content, and unchanged when it is at the
\* length of the content; the rest as stated.
C2_SkipAdvancesBeforeEnd ==
  InputEngineLive =>
    /\ MatchAndBackspaceMoves
    /\ \A key \in SkipKeys :
         IF position < Len(content) THEN PositionAfter(key) > position
         ELSE PositionAfter(key) = position

\* The engine still takes keys at the end of the content, which skips have
\* reached.
C2_Witness ==
  /\ InputEngineLive
  /\ position = Len(content)
  /\ Len(session.ti.skippedCharacters) = Len(content)

\* C3: a key that is not equivalent to the expected character leaves the
\* position and sets the error mark at it; a key that is equivalent, pressed
\* there at any later time, raises the position by one and leaves no error
\* mark at the position it was typed at.
C3_MismatchMarksMatchAdvances ==
  (InputEngineLive /\ position < Len(content)) =>
    \A key \in TypedKeys \cup {"Enter"} : \A R \in {AfterKey(key)} :
      IF validateCharacter(key, At(content, position))
      THEN /\ R.s.ip.currentPosition = position + 1
           /\ position \notin R.s.ti.errorMarks
      ELSE /\ R.s.ip.currentPosition = position
           /\ position \in R.s.ti.errorMarks

\* A mismatch at some position has been followed by a match there.
C3_Witness ==
  /\ InputEngineLive
  /\ session.ti.errors # <<>>
  /\ session.ti.skippedCharacters = <<>>
  /\ position = session.ti.errors[1] + 1
  /\ errorMarks = {}

\* C4: the counters of the session's Metrics Engine agree with what the
\* Input Engine has done: one incorrect character per mismatch recorded, one
\* skipped character per offset skipped, and correct plus skipped characters
\* at least the position, which only matches and skips raise.
C4_MetricsFollowInput ==
  (InputEngineLive /\ session.metricsCalculator) =>
    /\ session.mc.incorrectCharacters = Len(session.ti.errors)
    /\ session.mc.skippedCharacters = Len(session.ti.skippedCharacters)
    /\ session.mc.correctCharacters + session.mc.skippedCharacters >= position

\* The session, its registration, its overlay and its hints panel.
SessionParts(S) == <<S.s, S.reg, S.overlayInDom, S.hintsInDom>>

\* C5: while a session is active, confirming a selection changes nothing of
\* that session, of the registry, of its overlay or of its hints panel.
C5_SecondStartLeavesSession ==
  (session.isActive /\ isSelectionModeActive) =>
    \A h \in {x \in Hosts : InDocument(dom, x)} :
      \A text \in SelectionTexts(dom, h) :
        SessionParts(DispatchKey(Cur, "Enter", <<h, text>>))
          = SessionParts(Cur)

\* C6: an overlay session and an in-place session are never active at once.
C6_AtMostOneActive == ~(session.isActive /\ inlineTyping.isActive)

\* C7: whatever ends an active session, that step shows exactly one summary;
\* a step taken while the session is not active and that starts none shows
\* no summary.
C7_OneSummaryPerEnd ==
  [][/\ (session.isActive /\ ~session'.isActive)
          => Len(summaryLog') = Len(summaryLog) + 1
     /\ (~session.isActive /\ ~session'.isActive)
          => summaryLog' = summaryLog]_vars

\* C8: when a session ends, overlay or in place, its host region shows the
\* text the page gave it, which is the text it showed before the session.
C8_HostTextRestored ==
  [][/\ (session.isActive /\ ~session'.isActive)
          => renderedText(dom', session.parentElement)
               = PageText(dom', session.parentElement)
     /\ (inlineTyping.isActive /\ ~inlineTyping'.isActive)
          => renderedText(dom', inlineTyping.originalElement)
               = PageText(dom', inlineTyping.originalElement)]_vars

\* C9: a session whose position has reached the length of its content ends
\* with a summary of reason "completed".
C9_CompletedEndsWithSummary ==
  [][(/\ session.isActive /\ session.inputProcessor
      /\ Len(content) > 0 /\ position >= Len(content)
      /\ ~session'.isActive)
        => summaryLog' = Append(summaryLog, "completed")]_vars

\* C10: Escape, pressed while the Input Engine of an active session takes
\* keys, ends the session with a summary of reason "user_exit", and no key
\* pressed while the session is not active changes the session.
C10_EscapeEndsWithUserExit ==
  [][/\ (InputEngineLive /\ TypeKey("Escape"))
          => /\ ~session'.isActive
             /\ summaryLog' = Append(summaryLog, "user_exit")
     /\ (~session.isActive /\ \E key \in InputKeys : TypeKey(key))
          => session' = session]_vars

\* C11: a rewrite of an element under the host region of an active session
\* that leaves another content hash ends the session with a summary of
\* reason "content_changed", after which the host region shows the page's
\* text; a rewrite that leaves the stored hash leaves the session as it is.
C11_ContentChangeEndsSession ==
  [][\A h \in Hosts : \A version \in {1, 2} :
       (/\ session.isActive
        /\ IsWithin(dom, h, session.parentElement)
        /\ HostMutation(h, version))
         => IF simpleHash(textContent(dom', session.parentElement))
                 # session.originalContentHash
            THEN /\ ~session'.isActive
                 /\ summaryLog' = Append(summaryLog, "content_changed")
                 /\ renderedText(dom', session.parentElement)
                      = PageText(dom', session.parentElement)
            ELSE session' = session]_vars

\* The overlay is out of the document, the host element is out of the
\* document, or the content hash is not the stored one.
SessionStateBroken(S) ==
  \/ ~S.overlayInDom
  \/ ~InDocument(S.dom, S.s.parentElement)
  \/ createContentHash(S) # S.s.originalContentHash

\* C12: when the state of the current, active session is broken, the
\* validation tick leaves either an active session whose state is sound
\* again or a session ended with a summary of reason "recovery_failed".
C12_TickRecoversOrEnds ==
  (currentTypingSession /\ session.isActive /\ SessionStateBroken(Cur)) =>
    \/ /\ validationTick(Cur).s.isActive
       /\ ~SessionStateBroken(validationTick(Cur))
    \/ /\ ~validationTick(Cur).s.isActive
       /\ validationTick(Cur).summaryLog
            = Append(summaryLog, "recovery_failed")

\* C13: when one step of the session cleanup throws, the other steps have
\* run all the same once the teardown is over: the observer is disconnected,
\* the Input Engine, the overlay and the hints panel are torn down unless
\* theirs was the step that threw, the session's listeners are removed, the
\* registry is released and the session is not active.
C13_TeardownSurvivesThrow ==
  [][\A step \in TeardownSteps :
       CleanupThrows(step)
         => /\ ~session'.isActive
            /\ ~session'.contentObserver
            /\ step # "inputProcessor" => ~session'.inputProcessor
            /\ step # "typingInterface" => ~session'.typingInterface
            /\ step # "hintsUI" => ~session'.hintsUI
            /\ ~session'.cleanupCallbacks
            /\ typingPracticeActiveSession' # "this"]_vars

\* Nothing of the session is left in state S.
NothingLeft(S) ==
  /\ ~S.s.isActive
  /\ ~S.s.ip.eventListeners
  /\ ~S.overlayInDom /\ ~S.s.ti.overlayElement
  /\ ~S.hintsInDom /\ ~S.s.hintsUI
  /\ ~S.s.contentObserver
  /\ ~S.s.cleanupCallbacks
  /\ S.reg # "this"

C15_LateCallbacksIgnored ==
  ~session.isActive =>
    /\ \A h \in Hosts : handleContentChanges(Cur, h) = Cur
    /\ validationTick(Cur) = Cur

\* The session object is still referenced after a content change ended it.
C15_Witness == ~session.isActive /\ currentTypingSession /\ warnings > 0

\* The state in which a processKeyInput call is under way.
Processing(S) == [S EXCEPT !.s.ip.isProcessing = TRUE]

Running == calculator.isSessionActive /\ calculator.session

\* A fresh calculator that is given the keystrokes of history and no skip.
RECURSIVE Replay(_, _, _)
Replay(mc, history, i) ==
  IF i > Len(history) THEN mc
  ELSE Replay(recordKeystroke(mc, history[i], i - 1, 0), history, i + 1)

TypedOnly == Replay(startSession(NewMetricsCalculator, 0),
                    calculator.keystrokeHistory, 1)

\* C17: the accuracy of a running calculator, computed, stored and final, is
\* the accuracy of a calculator that was given the same keystrokes and no
\* skip, whatever skips were recorded in between.
C17_SkipsLeaveAccuracy ==
  Running =>
    /\ calculateAccuracy(calculator) = calculateAccuracy(TypedOnly)
    /\ calculator.currentAccuracy = TypedOnly.currentAccuracy
    /\ calculateFinalAccuracy(calculator) = calculateFinalAccuracy(TypedOnly)
    /\ \A reason \in SkipReasons : \A count \in SkipCounts :
         calculateAccuracy(recordSkip(calculator, reason, count))
           = calculateAccuracy(calculator)

\* Skips have been recorded among right and wrong keystrokes.
C17_Witness ==
  /\ Running
  /\ Len(calculator.skips) = MaxSkipRecords
  /\ calculator.correctCharacters > 0
  /\ calculator.incorrectCharacters > 0

\* a is correct / (correct + incorrect) * 100 rounded to two decimals, in
\* hundredths of a percent, or 100 percent when nothing was typed.
IsAccuracyOf(a, correct, incorrect) ==
  IF correct + incorrect = 0 THEN a = 10000
  ELSE /\ a \in 0..10000
       /\ 2 * a * (correct + incorrect) - (correct + incorrect)
            <= 2 * correct * 10000
       /\ 2 * correct * 10000
            < 2 * a * (correct + incorrect) + (correct + incorrect)

\* C18: the accuracy a running calculator computes and stores, and the
\* accuracy of the final summary of a calculator that has a session, is the rounded share of
\* the correct characters among the typed ones, 100 when nothing was typed,
\* and so lies between 0 and 100.
C18_AccuracyFormula ==
  /\ Running =>
       IsAccuracyOf(calculateAccuracy(calculator),
                    calculator.correctCharacters,
                    calculator.incorrectCharacters)
  /\ Running =>
       IsAccuracyOf(calculator.currentAccuracy,
                    calculator.correctCharacters,
                    calculator.incorrectCharacters)
  /\ calculator.session =>
       IsAccuracyOf(getSessionSummary(calculator, clock).accuracy,
                    calculator.correctCharacters,
                    calculator.incorrectCharacters)

\* Two of three typed characters were correct: 66.67 percent.
C18_Witness ==
  /\ Running
  /\ calculator.correctCharacters = 2
  /\ calculator.incorrectCharacters = 1

\* w is round((correct / 5) / minutes) for ms milliseconds, and 0 when the
\* time is not positive or no character is correct.
IsWPMOf(w, correct, ms) ==
  /\ w >= 0
  /\ (ms <= 0 \/ correct = 0) => w = 0
  /\ ms > 0 =>
       /\ 2 * w * CharsPerWord * ms - CharsPerWord * ms
            <= 2 * correct * MsPerMinute
       /\ 2 * correct * MsPerMinute
            < 2 * w * CharsPerWord * ms + CharsPerWord * ms

\* C19: the WPM a running calculator computes, and the WPM of the final
\* summary of a calculator that has a session, is the rounded number of
\* words per minute, 0 when the elapsed time is not positive or no character
\* is correct, and never negative; the stored WPM is never negative either.
C19_WPMFormula ==
  /\ calculator.currentWPM >= 0
  /\ Running =>
       IsWPMOf(calculateWPM(calculator, clock),
               calculator.correctCharacters, clock - calculator.startTime)
  /\ calculator.session =>
       IsWPMOf(getSessionSummary(calculator, clock).wpm,
               calculator.correctCharacters,
               getSessionSummary(calculator, clock).endTime
                 - calculator.startTime)

\* Characters are correct and the clock reads less than the start time.
C19_Witness ==
  /\ Running
  /\ calculator.correctCharacters > 0
  /\ calculator.incorrectCharacters > 0
  /\ clock < calculator.startTime

\* C20: on a calculator that is not running, never started, ended or reset,
\* recordKeystroke and recordSkip change nothing: no counter, no history, no
\* error log, no skip log.
C20_RecordsOnlyWhileRunning ==
  ~Running =>
    /\ \A correct \in BOOLEAN :
         recordKeystroke(calculator, correct, calculator.totalKeystrokes,
                         clock) = calculator
    /\ \A reason \in SkipReasons : \A count \in SkipCounts :
         recordSkip(calculator, reason, count) = calculator

\* The session of the calculator has ended after keystrokes and skips.
C20_Witness ==
  /\ calculator.session
  /\ ~calculator.isSessionActive
  /\ calculator.keystrokeHistory # <<>>
  /\ calculator.skips # <<>>

\* Every counter and log of mc is empty.
CountersAtZero(mc) ==
  /\ mc.totalCharacters = 0 /\ mc.correctCharacters = 0
  /\ mc.incorrectCharacters = 0 /\ mc.skippedCharacters = 0
  /\ mc.totalKeystrokes = 0 /\ mc.keystrokeHistory = <<>>
  /\ mc.skips = <<>> /\ mc.errors = <<>>

\* C21: startSession on a calculator that is not running makes it run with
\* every counter at zero and the clock's reading as startTime; startSession
\* on a running calculator leaves its counters, history and startTime as they
\* are.
C21_StartSessionGuarded ==
  /\ ~Running =>
       /\ startSession(calculator, clock).isSessionActive
       /\ startSession(calculator, clock).session
       /\ startSession(calculator, clock).startTime = clock
       /\ CountersAtZero(startSession(calculator, clock))
  /\ Running => startSession(calculator, clock) = calculator

\* The calculator has a session that has ended.
Ended == calculator.session /\ ~calculator.isSessionActive

\* C22: once the session has ended, getSessionSummary returns the same
\* summary, endTime included, at whatever time it is called and whatever
\* keystrokes and skips are recorded before the call; a step that ends a
\* running session by getSessionSummary stores the clock's reading as
\* endTime, and a step from ended to running is a startSession.
C22_SummaryIsFrozen ==
  /\ [](Ended =>
         /\ \A t \in ClockValues :
              /\ getSessionSummary(calculator, t)
                   = getSessionSummary(calculator, clock)
              /\ getSessionSummary(calculator, t).endTime
                   = calculator.endTime
              /\ \A correct \in BOOLEAN :
                   getSessionSummary(
                     recordKeystroke(calculator, correct,
                                     calculator.totalKeystrokes, t), t)
                     = getSessionSummary(calculator, clock)
              /\ \A reason \in SkipReasons : \A count \in SkipCounts :
                   getSessionSummary(recordSkip(calculator, reason, count), t)
                     = getSessionSummary(calculator, clock))
  /\ [][/\ (Running /\ GetSessionSummary) =>
            (Ended' /\ calculator'.endTime = clock)
        /\ (Ended /\ Running') =>
            calculator' = startSession(calculator, clock)]_vars

\* The session ended after keystrokes and the clock has moved on since.
C22_Witness ==
  /\ Ended
  /\ calculator.totalKeystrokes > 0
  /\ clock > calculator.endTime

RECURSIVE SumOfCounts(_, _)
SumOfCounts(skips, i) ==
  IF i > Len(skips) THEN 0 ELSE skips[i].count + SumOfCounts(skips, i + 1)

RECURSIVE SumOfEntries(_, _)
SumOfEntries(byReason, reasons) ==
  IF reasons = {} THEN [count |-> 0, characters |-> 0]
  ELSE LET r == CHOOSE x \in reasons : TRUE
       IN [count |-> byReason[r].count
                       + SumOfEntries(byReason, reasons \ {r}).count,
           characters |-> byReason[r].characters
                       + SumOfEntries(byReason, reasons \ {r}).characters]

SummaryBreakdown ==
  SumOfEntries(getSessionSummary(calculator, clock).skipsByReason,
               DOMAIN getSessionSummary(calculator, clock).skipsByReason)

\* C23: in a calculator with a session, skippedCharacters is the sum of the
\* counts of the recorded skips, and in the summary the entries of the
\* breakdown by reason add up to the number of skips and their characters to
\* skippedCharacters.
C23_SkipTotalsAgree ==
  calculator.session =>
    /\ calculator.skippedCharacters = SumOfCounts(calculator.skips, 1)
    /\ getSessionSummary(calculator, clock).skippedCharacters
         = calculator.skippedCharacters
    /\ SummaryBreakdown.count = Len(calculator.skips)
    /\ SummaryBreakdown.characters = calculator.skippedCharacters

\* Two skips of one reason and different counts were recorded.
C23_Witness ==
  /\ Running
  /\ Len(calculator.skips) = 2
  /\ calculator.skips[1].reason = calculator.skips[2].reason
  /\ calculator.skips[1].count # calculator.skips[2].count

\* The container of the selection lies in an input, textarea, select or
\* contenteditable element, document.body included.
HasEditableAncestor(selection) ==
  \/ \E i \in DOMAIN selection.path :
       \/ selection.path[i].tagName \in {"input", "textarea", "select"}
       \/ selection.path[i].contentEditable = "true"
  \/ selection.bodyEditable

\* The selections the specification accepts.
Acceptable(selection) ==
  /\ ~selection.isNull
  /\ ~selection.throws
  /\ selection.rangeCount >= 1
  /\ RunsLength(Trim(selection.text)) >= 3
  /\ RunsLength(Trim(selection.text)) <= 10000
  /\ HasNonWhitespace(selection.text)
  /\ selection.container \in {"text", "element"}
  /\ ~HasEditableAncestor(selection)

\* C24: validateSelection returns true exactly for a selection with a range,
\* a trimmed text of 3 to 10000 characters with a non-whitespace character,
\* and a container without an editable ancestor.
C24_ValidateSelectionExact ==
  (call # NoCall /\ call[1] = "validateSelection" /\ returned # <<>>) =>
    (returned[1] <=> Acceptable(call[2]))

skipLog == session.ti.skippedCharacters

\* One entry with reason "shortcut" for each of the offsets p, ..., q - 1.
EntriesFor(p, q) ==
  [i \in 1..(q - p) |-> [position |-> p + i - 1, method |-> "shortcut"]]

\* C25: Tab or Shift+Tab at position p, leading to position q, appends to
\* the skip log one entry with reason "shortcut" for each offset p, ...,
\* q - 1, in increasing order, and nothing else; Tab below the end of the
\* content gives q = p + 1; at the end of the content nothing is appended;
\* on "a\n\nb" at position 0 Shift+Tab gives position 3.
C25_SkipLogsEveryOffset ==
  InputEngineLive =>
    \A key \in SkipKeys : \A R \in {AfterKey(key)} :
      /\ R.s.ip.currentPosition >= position
      /\ R.s.ti.skippedCharacters
           = skipLog \o EntriesFor(position, R.s.ip.currentPosition)
      /\ position = Len(content) => R.s.ti.skippedCharacters = skipLog
      /\ (key = "Tab" /\ position < Len(content)) =>
           R.s.ip.currentPosition = position + 1
      /\ (/\ key = "Shift+Tab"
          /\ content = <<"a", "\n", "\n", "b">>
          /\ position = 0) => R.s.ip.currentPosition = 3

\* Shift+Tab has skipped the first three characters of "a\n\nb".
C25_Witness ==
  /\ InputEngineLive
  /\ content = <<"a", "\n", "\n", "b">>
  /\ position = 3
  /\ skipLog = EntriesFor(0, 3)

Least(S) == CHOOSE i \in S : \A j \in S : i <= j

\* The 0-based indices at or after p of: a double newline; a newline followed
\* by a non-whitespace character; a sentence end followed by whitespace and
\* an upper-case letter.
DoubleNewlinesFrom(text, p) ==
  {i \in p..(Len(text) - 2) : At(text, i) = "\n" /\ At(text, i + 1) = "\n"}

ParagraphNewlinesFrom(text, p) ==
  {i \in p..(Len(text) - 2) :
     At(text, i) = "\n" /\ At(text, i + 1) \notin Whitespace}

SentenceEndsFrom(text, p) ==
  {i \in p..(Len(text) - 3) :
     /\ At(text, i) \in {".", "!", "?"}
     /\ \E k \in (i + 2)..(Len(text) - 1) :
          /\ At(text, k) \in {"A", "B", "C"}
          /\ \A j \in (i + 1)..(k - 1) : At(text, j) \in Whitespace}

\* The boundary by the order of priority of the specification.
BoundaryByPriority(text, p) ==
  IF DoubleNewlinesFrom(text, p) # {}
  THEN Least(DoubleNewlinesFrom(text, p)) + 2
  ELSE IF ParagraphNewlinesFrom(text, p) # {}
  THEN Least(ParagraphNewlinesFrom(text, p)) + 1
  ELSE IF SentenceEndsFrom(text, p) # {}
  THEN Least(SentenceEndsFrom(text, p)) + 2
  ELSE Len(text)

\* C26: for a start position p below the length of the text, the boundary
\* Shift+Tab uses, the value findNextParagraphBoundary returns or the length
\* of the text for -1, is the one the order of priority gives: after the
\* first double newline, else after the first newline followed by a
\* non-whitespace character, else after the punctuation and one whitespace of
\* the first sentence end, else the length of the text; it is greater than p
\* and at most the length of the text.
C26_BoundaryByPriority ==
  (call # NoCall /\ call[1] = "findNextParagraphBoundary"
     /\ returned # <<>>) =>
    /\ boundaryOrEnd(call[2].text, returned[1])
         = BoundaryByPriority(call[2].text, call[2].startPos)
    /\ boundaryOrEnd(call[2].text, returned[1]) > call[2].startPos
    /\ boundaryOrEnd(call[2].text, returned[1]) <= Len(call[2].text)

\* A sentence end comes first, a double newline later: the double newline
\* decides.
C26_Witness ==
  /\ call = <<"findNextParagraphBoundary",
              [text |-> <<".", " ", "B", "\n", "\n">>, startPos |-> 0]>>
  /\ returned = <<5>>

\* The ASCII letters among the characters, and the pairs of them that are
\* one letter in two cases.
AsciiLetters == {"a", "b", "c", "k", "t", "x", "A", "B", "C", "K"}

CasePairs ==
  {<<"a", "A">>, <<"b", "B">>, <<"c", "C">>, <<"k", "K">>}

EqualIgnoringCase(x, y) ==
  x = y \/ <<x, y>> \in CasePairs \/ <<y, x>> \in CasePairs

\* The equivalence of the specification.
Equivalent(input, expected) ==
  /\ input # "" /\ expected # ""
  /\ \/ input = expected
     \/ input \in {" ", NBSP} /\ expected \in {" ", NBSP}
     \/ input \in {"\n", "\r"} /\ expected \in {"\n", "\r"}
     \/ /\ input \in AsciiLetters /\ expected \in AsciiLetters
        /\ EqualIgnoringCase(input, expected)

\* C27: validateCharacter(input, expected) is true exactly when input equals
\* expected, or both are a space or non-breaking space, or both are CR or LF,
\* or both are ASCII letters equal but for their case; it is false when one
\* of them is empty and when input is the name of a key.
C27_EquivalenceExact ==
  (call # NoCall /\ call[1] = "validateCharacter" /\ returned # <<>>) =>
    (returned[1] <=> Equivalent(call[2].input, call[2].expected))

\* The session of state S has been torn down.
TornDown(S) ==
  /\ ~S.s.isActive
  /\ ~S.overlayInDom
  /\ S.reg # "this"
  /\ ~S.s.ip.eventListeners
  /\ ~S.s.cleanupCallbacks

\* C28: from every state with an active session, a beforeunload or unload
\* event and an error event of the window each leave the session torn down:
\* not active, no overlay, not in the registry, its key listeners and its
\* window and document listeners removed.
C28_UnloadAndErrorTearDown ==
  session.isActive =>
    \A R \in {pageUnload(Cur), errorHandler(Cur)} : TornDown(R)

\* An error event has ended a session.
C28_Witness ==
  /\ ~session.isActive
  /\ summaryLog # <<>>
  /\ summaryLog[Len(summaryLog)] = "error"

\* Nothing of a session that failed to start is left in state S.
NoPartialSession(S) ==
  /\ ~S.s.isActive /\ ~S.s.sessionLock
  /\ ~S.overlayInDom /\ ~S.hintsInDom
  /\ ~S.s.ip.eventListeners
  /\ ~S.s.contentObserver /\ ~S.s.cleanupCallbacks
  /\ S.reg # "this"

\* The content script holds no session and selection mode is off.
NothingStarted(S) ==
  /\ ~S.cur /\ ~S.s.isActive
  /\ ~S.overlayInDom /\ ~S.hintsInDom
  /\ ~S.selMode
  /\ S.message = "error"

\* C29: whenever a selection can be confirmed, whichever step of initialize
\* throws and however far that step had come, initialize leaves no partial
\* session: not active, not locked, no overlay, no hints panel, no listener
\* of the attempt, no observer, no registry entry; and processValidSelection
\* then holds no session, with selection mode off and the error message
\* shown.
C29_FailedStartLeavesNothing ==
  isSelectionModeActive =>
    \A h \in {x \in Hosts : InDocument(dom, x)} :
      \A text \in SelectionTexts(dom, h) :
        \A step \in InitializeSteps : \A late \in BOOLEAN :
          /\ \A R \in {TypingSession_initializeThrowing(
                         beforeInitialize(Cur), h, text, step, late)} :
               NoPartialSession(R)
          /\ validateSelection(Cur, h, text) =>
               \A R \in {processValidSelectionThrowing(Cur, h, text, step,
                                                      late)} :
                 NothingStarted(R)

\* A start has just failed: the error message is up, selection mode is off
\* and nothing has started.
C29_Witness ==
  /\ shownMessage = "error"
  /\ ~isSelectionModeActive
  /\ ~currentTypingSession
  /\ ~session.isActive
  /\ summaryLog = <<>>
  /\ ~overlayInDom /\ ~hintsInDom
  /\ typingPracticeActiveSession = "null"
  /\ inlineTimers = 0 /\ completionTimers = 0
  /\ ~inlineTyping.isActive

\* Element h shows in state S the text the page gave it.
ShowsPageText(S, h) == renderedText(S.dom, h) = PageText(S.dom, h)

NoSessionOnPage(S) ==
  /\ ~S.s.isActive /\ ~S.cur
  /\ S.reg = "null"
  /\ ~S.overlayInDom /\ ~S.hintsInDom
  /\ ~S.selMode

NoInPlaceSession(S) == ~S.inl.isActive

HostsRestored(S) ==
  /\ session.isActive => ShowsPageText(S, session.parentElement)
  /\ inlineTyping.isActive => ShowsPageText(S, inlineTyping.originalElement)

\* C30: in every reachable state, the state the forceCleanup handler leaves
\* has no overlay session and no in-place session active, an empty registry,
\* no overlay and no hints panel in the document, selection mode off, and
\* the host region of each session that was active shows the page's text.
C30_ForceCleanupClearsPage ==
  /\ NoSessionOnPage(handleForceCleanup(Cur))
  /\ NoInPlaceSession(handleForceCleanup(Cur))
  /\ HostsRestored(handleForceCleanup(Cur))

StatusFollowsPosition ==
  (session.isActive /\ session.inputProcessor) =>
    TypingSession_getStatus(Cur).currentPosition = session.ip.currentPosition

SummaryFollowsPosition ==
  (session.isActive /\ session.inputProcessor) =>
    TypingSession_getSessionSummary(Cur, "completed").completedCharacters
      = session.ip.currentPosition

\* C31: while a session is active, getStatus() reports the input
\* processor's currentPosition, and a summary taken now, as endSession
\* takes it, has that position as its completedCharacters.
C31_StatusAndSummaryPosition ==
  StatusFollowsPosition /\ SummaryFollowsPosition

\* C32: for a calculator holding a session, the summary the session
\* controller builds from it carries the calculator summary's wpm, accuracy,
\* correctCharacters and skippedCharacters, and its errorCount is the number
\* of incorrect keystrokes the calculator recorded.
C32_SummaryCarriesMetrics ==
  calculator.session =>
    /\ TypingSession_summaryMetrics(calculator, clock).wpm
         = getSessionSummary(calculator, clock).wpm
    /\ TypingSession_summaryMetrics(calculator, clock).accuracy
         = getSessionSummary(calculator, clock).accuracy
    /\ TypingSession_summaryMetrics(calculator, clock).correctCharacters
         = getSessionSummary(calculator, clock).correctCharacters
    /\ TypingSession_summaryMetrics(calculator, clock).skippedCharacters
         = getSessionSummary(calculator, clock).skippedCharacters
    /\ TypingSession_summaryMetrics(calculator, clock).errorCount
         = calculator.incorrectCharacters

\* The elements of chain els that cover offset index and whose captured
\* style defines property p, by their place in the chain.
Defining(els, index, p) ==
  {i \in 1..Len(els) : i - 1 <= index /\ els[i].computedStyle[p] # ""}

Deepest(places) == CHOOSE i \in places : \A j \in places : j <= i

\* C33: the unit of the character at an offset has, for colour and font
\* weight, the value captured from the deepest element covering the offset
\* that defines the property, and no value when no covering element defines
\* it.
C33_DeepestDefiningWins ==
  (call # NoCall /\ call[1] = "applyCharacterFormatting"
     /\ returned # <<>>) =>
    \A p \in {"color", "fontWeight"} :
      IF Defining(call[2].els, call[2].index, p) = {}
      THEN p \notin DOMAIN returned[1]
      ELSE /\ p \in DOMAIN returned[1]
           /\ returned[1][p]
                = call[2].els[Deepest(Defining(call[2].els, call[2].index,
                                               p))].computedStyle[p]

ActiveIsRegistered ==
  session.isActive =>
    /\ typingPracticeActiveSession = "this"
    /\ currentTypingSession
    /\ session.inputProcessor
    /\ session.typingInterface
    /\ session.metricsCalculator

RegisteredIsActive ==
  typingPracticeActiveSession # "null" =>
    (typingPracticeActiveSession = "this" /\ session.isActive)

\* The registry is written by a step that starts a session (acquire) or by
\* one in which the registered session stops being active (release).
RegistryWriters ==
  [][typingPracticeActiveSession' # typingPracticeActiveSession =>
       \/ /\ typingPracticeActiveSession' = "this"
          /\ ~session.isActive /\ session'.isActive
       \/ /\ typingPracticeActiveSession' = "null"
          /\ session.isActive /\ ~session'.isActive]_vars

\* C34: between handlers, an active session is the registered one and has
\* its input processor, typing interface and metrics calculator; the
\* registry names a session only while that session is active; and the
\* registry changes only when a session starts or the registered one ends.
C34_RegistryFollowsSession ==
  /\ [](ActiveIsRegistered /\ RegisteredIsActive)
  /\ RegistryWriters

\* A session has ended with a summary and a later one is active and
\* registered.
C34_Witness ==
  /\ Len(summaryLog) > 0
  /\ session.isActive
  /\ typingPracticeActiveSession = "this"

\* N is the state right after a new overlay session has started.  A
\* completion timer pending in N was scheduled by an earlier session: its
\* firing leaves the new session as it is.
OverlayTimerSpares(N) ==
  (N.s.isActive /\ N.timers > 0) =>
    \A F \in {completionTimerFires(N)} :
      /\ F.s = N.s
      /\ F.cur
      /\ F.overlayInDom = N.overlayInDom

\* The same for the in-place engine and its timer.
InlineTimerSpares(N) ==
  (N.inl.isActive /\ N.inlTimers > 0) =>
    \A F \in {inlineTimerFires(N)} :
      /\ F.inl = N.inl
      /\ F.dom = N.dom

OverlayTimerSparesNewSession ==
  isSelectionModeActive =>
    \A h \in {x \in Hosts : InDocument(dom, x)} :
      \A text \in SelectionTexts(dom, h) :
        \A N \in {DispatchKey(Cur, "Enter", <<h, text>>)} :
          OverlayTimerSpares(N)

InlineTimerSparesNewSession ==
  isSelectionModeActive =>
    \A h \in {x \in Hosts : InDocument(dom, x)} :
      findParagraphElement(dom, h) # NoHost =>
        \A N \in {handleParagraphClick(Cur, h)} : InlineTimerSpares(N)

\* C35: a completion timer that is pending when a new session starts, and
\* so belongs to a session that has ended, changes nothing of the new
\* session when it fires; for the overlay engine and for the in-place engine.
C35_TimerSparesNewSession ==
  OverlayTimerSparesNewSession /\ InlineTimerSparesNewSession

\* C36: between handlers of an active overlay session, the position the
\* typing interface holds, where its caret and highlighting are, is the
\* input processor's currentPosition; also after a recovery has rendered
\* the overlay again.
C36_OverlayShowsPosition ==
  (session.isActive /\ session.typingInterface /\ session.inputProcessor) =>
    session.ti.currentPosition = session.ip.currentPosition

\* The keydown handlers of the in-place engine registered on the document.
inlineHandlers ==
  (IF inlineTyping.keyHandlerRegistered THEN 1 ELSE 0)
    + inlineTyping.staleHandlers

\* C37: at most one keydown handler of the in-place engine is registered on
\* the document, and none while the engine is not active.
C37_OneInlineHandler ==
  /\ inlineHandlers <= 1
  /\ ~inlineTyping.isActive => inlineHandlers = 0

InlinePositionWithinText ==
  inlineTyping.currentPosition <= Len(inlineTyping.originalText)

\* C38: the in-place engine's position never exceeds the length of its text,
\* and a key handled while the engine is active at the end of the text
\* leaves the position where it is and reads no character unit past the
\* last one.
C38_InlineEndIsQuiet ==
  /\ InlinePositionWithinText
  /\ (/\ inlineTyping.isActive
      /\ inlineTyping.currentPosition = Len(inlineTyping.originalText)) =>
       \A key \in PageKeys :
         /\ InlineTyping_keyHandler(Cur, key).inl.currentPosition
              = inlineTyping.currentPosition
         /\ ~readsMissingSpan(Cur, key)

\* The counters of the Metrics Engine session, in a fixed order.
counters(mc) ==
  <<mc.totalCharacters, mc.correctCharacters, mc.incorrectCharacters,
    mc.skippedCharacters, mc.totalKeystrokes, mc.correctKeystrokes,
    mc.incorrectKeystrokes, Len(mc.keystrokeHistory), Len(mc.errors),
    Len(mc.skips)>>

CountersAgree ==
  calculator.session =>
    /\ calculator.totalCharacters
         = calculator.correctCharacters + calculator.incorrectCharacters
    /\ calculator.totalCharacters = calculator.totalKeystrokes
    /\ calculator.totalKeystrokes = Len(calculator.keystrokeHistory)
    /\ calculator.correctKeystrokes = calculator.correctCharacters
    /\ calculator.incorrectKeystrokes = calculator.incorrectCharacters
    /\ calculator.incorrectCharacters = Len(calculator.errors)

\* A step inside one session: a session exists before and after, and the
\* step is neither startSession nor reset.
WithinOneSession ==
  /\ calculator.session
  /\ calculator'.session
  /\ calculator' # startSession(calculator, clock)
  /\ calculator' # reset(calculator)

CountersNeverDecrease ==
  [][WithinOneSession =>
       \A i \in DOMAIN counters(calculator) :
         counters(calculator')[i] >= counters(calculator)[i]]_vars

\* C39: in every state of a running or ended Metrics Engine session,
\* totalCharacters = correctCharacters + incorrectCharacters =
\* totalKeystrokes = the length of the keystroke history, correctKeystrokes
\* = correctCharacters, incorrectKeystrokes = incorrectCharacters = the
\* length of the error log, and no counter decreases between startSession
\* and the next startSession or reset.
C39_CountersAgreeAndGrow == []CountersAgree /\ CountersNeverDecrease

\* An ended session that counted correct and wrong keystrokes and a skip.
C39_Witness ==
  /\ calculator.session
  /\ ~calculator.isSessionActive
  /\ calculator.correctKeystrokes >= 2
  /\ calculator.incorrectKeystrokes >= 1
  /\ calculator.skippedCharacters >= 1
====
